---- MODULE Spec2Model ----
(***************************************************************************)
(* Verification model of the prediction-market bot's live pipeline:        *)
(*   - risk/manager.py      RiskManager (pre-trade gate, PnL bookkeeping)  *)
(*   - live_trading.py      on_signals / LiveExecutionEngine.execute       *)
(*   - adapters/base.py     LiveOrderBook, BaseMarketAdapter.run           *)
(*   - adapters/kalshi_ws.py  Kalshi frame handlers                        *)
(*   - signals/             SignalEngine and the two detectors             *)
(*   - backtest/recorder.py BookRecorder                                   *)
(*                                                                         *)
(* Fixed-point units.  The source computes in binary floating point; the   *)
(* model computes in integers:                                             *)
(*   money      in whole dollars        (1000.0 USD  = 1000)               *)
(*   fractions  in thousandths          (0.25        = 250)                *)
(*   prices     in cents of probability (0.55        = 55)                 *)
(*   book sizes in whole units                                             *)
(* A product of fractions is divided back with \div (truncation).          *)
(***************************************************************************)
EXTENDS Integers, Sequences, FiniteSets, TLC

VARIABLES
    \* ---- RiskManager (risk/manager.py) ----
    bankroll,          \* _bankroll, dollars
    open_positions,    \* _open_positions: market_id -> dollars at risk
    daily_pnl,         \* _daily_pnl, dollars
    pnl_date,          \* _pnl_date, a UTC day number
    max_daily_loss,    \* _max_daily_loss, dollars (0 = disabled)
    \* ---- environment of the signal path (live_trading.py) ----
    today,             \* datetime.now(timezone.utc).date(), a UTC day number
    orders,            \* event store table `orders`: sequence of rows
    exchange,          \* placement port: market_id -> number of accepted orders
    batchLeft,         \* signals of the running on_signals call not yet handled
    closedToday,       \* sum of the pnl passed to record_close on UTC day `today`
    closes,            \* number of record_close calls so far
    last               \* the last operation and what it observed / returned

riskVars == <<bankroll, open_positions, daily_pnl, pnl_date, max_daily_loss,
              today, orders, exchange, batchLeft, closedToday, closes, last>>

VARIABLES
    \* ---- adapter book registry (adapters/base.py, adapters/kalshi_ws.py) ----
    books,             \* BaseMarketAdapter._books: ticker -> LiveOrderBook
    inbox,             \* the frame waiting on the socket, or NoFrame
    lastFrame,         \* the last frame handled / book operation applied
    bookLog,           \* per book: what created it, whether apply_snapshot ran on it
    callbacks,         \* LiveOrderBook._callbacks of each book, by name
    raises,            \* the callbacks that raise an Exception when called
    cbLog              \* the callback invocations of the last book operation

bookVars == <<books, inbox, lastFrame, bookLog, callbacks, raises, cbLog>>

VARIABLES
    \* ---- adapter run loop and run_live wiring (adapters/base.py, live_trading.py) ----
    running,           \* BaseMarketAdapter._running
    pc,                \* where run() stands: idle, connecting, subscribing, reading,
                       \* handling, sleeping, stopped (returned), raised (exception out)
    delay,             \* run()'s local reconnect delay, seconds
    global_callbacks,  \* BaseMarketAdapter._global_callbacks, by name
    fired,             \* calls each book-update callback has received
    frames_read,       \* frames run() has taken from the socket
    updates_applied,   \* frames among them that updated a book
    message,           \* the frame _handle_message is working on, or NoMessage
    sleep_left,        \* seconds asyncio.sleep(delay) still has to run
    slept,             \* length of the last backoff sleep that ran out, 0 if none
    error,             \* the exception the except clause is dealing with, "" if none
    stop_at,           \* where run() stood when stop() was called
    platform           \* the adapter class: "kalshi" or "polymarket"

liveVars == <<running, pc, delay, global_callbacks, fired, frames_read,
              updates_applied, message, sleep_left, slept, error, stop_at,
              platform>>

VARIABLES
    \* ---- SignalEngine (signals/engine.py) ----
    arb_pairs,         \* SignalEngine._arb_pairs: the registered pairs, by id
    signal_books,      \* SignalEngine._books: the registered books, by market id
    signal_callbacks,  \* SignalEngine._callbacks, by name
    lastEval           \* the last evaluate_all call: registrations it ran over,
                       \* detector results, returned list, callback invocations

engineVars == <<arb_pairs, signal_books, signal_callbacks, lastEval>>

VARIABLES
    \* ---- BookRecorder (backtest/recorder.py) ----
    rec_closed,        \* _closed
    rec_handles,       \* _handles: the keys that have an open file handle
    rec_last_write,    \* _last_write: key -> time.monotonic() in ms
    rec_now,           \* time.monotonic(), ms
    rec_calls,         \* on_book_update calls in flight, one per thread
    rec_close,         \* close(): "idle", "flagged" (_closed set) or "returned"
    rec_lines,         \* the lines written, in the order of the writes
    rec_dropped,       \* the calls that returned at the interval test
    rec_started        \* on_book_update calls started so far

recVars == <<rec_closed, rec_handles, rec_last_write, rec_now, rec_calls,
             rec_close, rec_lines, rec_dropped, rec_started>>

VARIABLES
    \* ---- one BookImbalanceSignal.evaluate call on its own thread ----
    evaluation         \* its position, the values it has read so far, and the
                       \* book states that have existed since it began

evalVars == <<evaluation>>

\* BaseMarketAdapter._subscriptions and what the adapter last handed to the venue
VARIABLES
    subscriptions,     \* _subscriptions: the set of registered market ids
    sent               \* the last _send_subscribe call: the ids it was given,
                       \* and the ids of the frame it sent, if it sent one

subVars == <<subscriptions, sent>>

vars == <<riskVars, bookVars, liveVars, engineVars, recVars, evalVars, subVars>>

----------------------------------------------------------------------------
\* Bounds of the model

MaxDay    == 1     \* UTC days the clock runs through: 0..MaxDay
MaxOrders == 2     \* rows the orders table may hold; signals in one batch
MaxCloses == 1     \* record_close calls in one behaviour

----------------------------------------------------------------------------
\* Units and configuration (RiskManager.__init__, config.py)

UNIT == 1000                       \* thousandths in 1.0

kelly_fraction        == 250       \* 0.25
max_position_fraction == 80        \* 0.08
max_total_exposure    == 250       \* 0.25
min_edge_threshold    == 15        \* 0.015
InitialBankroll       == 1000      \* 1000.0 USD

max_daily_loss_usd    == 0         \* the default: no daily-loss limit

MaxDailyLossChoices == {max_daily_loss_usd, 50}   \* MAX_DAILY_LOSS_USD: off, or 50 USD

Markets    == {"m1", "m2"}
Directions == {"BUY_YES", "BUY_NO"}
Edges      == {10, 60, 400}        \* 0.01 (below the floor), 0.06, 0.40
\* metadata["best_bid"]: key absent, None, 0.45, 0.995
BestBids   == {[kind |-> "absent", value |-> 0], [kind |-> "null", value |-> 0],
               [kind |-> "num", value |-> 450], [kind |-> "num", value |-> 995]}
PnLs       == {-50, 20}            \* pnl_usd passed to record_close
Bankrolls  == {350}                \* values passed to update_bankroll

AllSignals == [market_id: Markets, direction: Directions,
               edge_estimate: Edges, best_bid: BestBids]

Bid(kind, value) == [kind |-> kind, value |-> value]

\* The signals the signal path is driven with: per market one below the edge
\* floor, one sized by Kelly, one sized by the per-position cap, one whose
\* clamped entry price makes the Kelly fraction zero, and one BUY_NO.
SignalProfiles ==
    { <<"BUY_YES", 10,  Bid("num", 450)>>,
      <<"BUY_YES", 60,  Bid("num", 450)>>,
      <<"BUY_YES", 400, Bid("num", 450)>>,
      <<"BUY_YES", 60,  Bid("num", 995)>>,
      <<"BUY_NO",  60,  Bid("absent", 0)>> }

Signals == { s \in AllSignals :
               <<s.direction, s.edge_estimate, s.best_bid>> \in SignalProfiles }

Min(a, b) == IF a <= b THEN a ELSE b
Max(a, b) == IF a >= b THEN a ELSE b

RECURSIVE SumOver(_, _)
SumOver(f, S) == IF S = {} THEN 0
                 ELSE LET k == CHOOSE x \in S : TRUE
                      IN  f[k] + SumOver(f, S \ {k})

total_exposure_usd_zero(open) == 0

\* RiskManager.total_exposure_usd
total_exposure_usd(open) == SumOver(open, DOMAIN open)

----------------------------------------------------------------------------
\* RiskManager._maybe_reset_daily_pnl: the (daily_pnl, pnl_date) pair after it

maybe_reset_daily_pnl_noreset(pnl, date, now) == [pnl |-> pnl, date |-> now]

maybe_reset_daily_pnl_always(pnl, date, now) == [pnl |-> 0, date |-> now]

maybe_reset_daily_pnl(pnl, date, now) ==
    IF now # date THEN [pnl |-> 0, date |-> now]
                  ELSE [pnl |-> pnl, date |-> date]

\* `mid or dflt`: Python truthiness of metadata["best_bid"]
OrDefault(mid, dflt) ==
    IF mid.kind = "null" \/ mid.value = 0 THEN dflt ELSE mid.value

\* RiskManager._kelly, in thousandths.  b = (1-entry)/entry is kept as the
\* ratio bn/bd, so (b*p - q)/b = (bn*p - q*bd)/bn.
kelly_entry(signal) ==
    LET mid   == IF signal.best_bid.kind = "absent"
                 THEN [kind |-> "num", value |-> 450] ELSE signal.best_bid
        raw   == IF signal.direction = "BUY_NO"
                 THEN UNIT - OrDefault(mid, 550)
                 ELSE OrDefault(mid, 450)
    IN  Max(Min(raw, 990), 10)

kelly(signal) ==
    LET entry == kelly_entry(signal)
        bn    == UNIT - entry
        bd    == entry
        p     == Min(entry + signal.edge_estimate, 990)
        q     == UNIT - p
        k     == IF bn > 0 THEN (bn * p - q * bd) \div bn ELSE 0
    IN  Max(k, 0)

\* Check 1 (manager.py:109)
is_duplicate_never(market_id, open) == FALSE

is_duplicate(market_id, open) == market_id \in DOMAIN open

\* Check 2 (manager.py:117)
daily_loss_hit_strict(pnl, maxloss) == maxloss > 0 /\ pnl < -maxloss

daily_loss_hit(pnl, maxloss) == maxloss > 0 /\ pnl <= -maxloss

\* Check 5 (manager.py:143-144): min(fractional * bankroll, max_pos_usd)
single_cap(fractional, bank) ==
    Min((fractional * bank) \div (UNIT * UNIT),
        (bank * max_position_fraction) \div UNIT)

\* Check 6 (manager.py:163): pos_usd = min(pos_usd, remaining)
total_cap_uncapped(pos, remaining) == pos

total_cap(pos, remaining) == Min(pos, remaining)

Rejected(tag) == [approved |-> FALSE, reason |-> tag, position_size_usd |-> 0]

\* RiskManager.check after the reset: `pnl` is the daily PnL the gates read
check_loss_first(signal, open, pnl, bank, maxloss) ==
    IF daily_loss_hit(pnl, maxloss) THEN Rejected("daily_loss_limit")
    ELSE IF is_duplicate(signal.market_id, open) THEN Rejected("duplicate_position")
    ELSE IF signal.edge_estimate < min_edge_threshold THEN Rejected("edge_below_min")
    ELSE
      LET pos       == single_cap(kelly(signal) * kelly_fraction, bank)
          remaining == (bank * max_total_exposure) \div UNIT - total_exposure_usd(open)
      IN  IF pos <= 0 THEN Rejected("zero_size")
          ELSE IF remaining <= 0 THEN Rejected("exposure_ceiling")
          ELSE [approved |-> TRUE, reason |-> "",
                position_size_usd |-> total_cap(pos, remaining)]

check(signal, open, pnl, bank, maxloss) ==
    IF is_duplicate(signal.market_id, open) THEN Rejected("duplicate_position")
    ELSE IF daily_loss_hit(pnl, maxloss) THEN Rejected("daily_loss_limit")
    ELSE IF signal.edge_estimate < min_edge_threshold THEN Rejected("edge_below_min")
    ELSE
      LET kelly_frac == kelly(signal)
          fractional == kelly_frac * kelly_fraction
          pos_usd    == single_cap(fractional, bank)
          max_total  == (bank * max_total_exposure) \div UNIT
          remaining  == max_total - total_exposure_usd(open)
      IN  IF pos_usd <= 0 THEN Rejected("zero_size")
          ELSE IF remaining <= 0 THEN Rejected("exposure_ceiling")
          ELSE [approved |-> TRUE, reason |-> "",
                position_size_usd |-> total_cap(pos_usd, remaining)]

\* RiskManager.record_open / record_close on the position map
record_open(open, market_id, size_usd) ==
    [k \in DOMAIN open \cup {market_id} |->
        IF k = market_id THEN size_usd ELSE open[k]]

pop_position(open, market_id) ==
    [k \in DOMAIN open \ {market_id} |-> open[k]]

----------------------------------------------------------------------------
\* LiveExecutionEngine.execute (live_trading.py:95-153)
\*
\* `o` is what the environment does during this one signal:
\*   logSignal, logOrder, updStatus, logFill, updFailed : TRUE when that event
\*       store call returns, FALSE when it raises (sqlite3 error);
\*   place : the status place_order returns, or "raise";

\*   place_order returns the order FILLED (the dry-run answer of both clients)
\*       or raises.
\* A call that is not reached has no outcome: its field is fixed, so that each
\* course of events is listed once.

AllOutcomes == [logSignal: BOOLEAN, logOrder: BOOLEAN,
                place: {"FILLED", "raise"},
                updStatus: BOOLEAN, logFill: BOOLEAN, updFailed: BOOLEAN]

Outcomes ==
    { o \in AllOutcomes :
        /\ (~o.logSignal => o.logOrder)
        /\ (~o.logOrder => o.place = "FILLED")
        /\ (o.place = "raise" => o.updStatus)
        /\ (~o.updStatus => o.logFill)
        /\ (o.place = "FILLED" /\ o.updStatus /\ o.logFill => o.updFailed)
        /\ (~o.logSignal \/ ~o.logOrder => o.updFailed) }

SetStatus(ords, row, status) == [ords EXCEPT ![row].status = status]

\* the except branch of execute (live_trading.py:149-153)
on_place_error_true(ords, exch, row, updFailedOk) ==
    [orders |-> SetStatus(ords, row, "FAILED"), exchange |-> exch, result |-> "true"]

on_place_error(ords, exch, row, updFailedOk) ==
    IF updFailedOk
    THEN [orders |-> SetStatus(ords, row, "FAILED"), exchange |-> exch,
          result |-> "false"]
    ELSE [orders |-> ords, exchange |-> exch, result |-> "raised"]

execute(signal, o, ords, exch) ==
    IF ~o.logOrder
    THEN [orders |-> ords, exchange |-> exch, result |-> "raised"]
    ELSE
      LET row  == Len(ords) + 1
          ord1 == Append(ords, [market_id |-> signal.market_id,
                                status |-> "SUBMITTING"])
      IN  IF o.place = "raise"
          THEN on_place_error(ord1, exch, row, o.updFailed)
          ELSE
            LET exch1 == [exch EXCEPT ![signal.market_id] = @ + 1]
            IN  IF ~o.updStatus
                THEN on_place_error(ord1, exch1, row, o.updFailed)
                ELSE IF ~o.logFill
                THEN on_place_error(SetStatus(ord1, row, o.place), exch1, row,
                                    o.updFailed)
                ELSE [orders |-> SetStatus(ord1, row, o.place),
                      exchange |-> exch1, result |-> "true"]

----------------------------------------------------------------------------
\* The record kept of the last operation

NoSignal == [market_id |-> "", direction |-> "", edge_estimate |-> 0,
             best_bid |-> [kind |-> "absent", value |-> 0]]
NoDecision == [approved |-> FALSE, reason |-> "none", position_size_usd |-> 0]

LastOp(op) ==
    [op |-> op, signal |-> NoSignal, checked |-> FALSE, decision |-> NoDecision,
     exposure |-> 0, was_open |-> FALSE, date_changed |-> FALSE,
     pnl_before |-> 0, place |-> "none", result |-> "none"]

----------------------------------------------------------------------------
\* Initial state: RiskManager.__init__ with an empty event store

InitRisk(limits) ==
    /\ bankroll = InitialBankroll
    /\ open_positions = [k \in {} |-> 0]
    /\ daily_pnl = 0
    /\ pnl_date = 0
    /\ max_daily_loss \in limits
    /\ today = 0
    /\ orders = <<>>
    /\ exchange = [m \in Markets |-> 0]
    /\ batchLeft = 0
    /\ closedToday = 0
    /\ closes = 0
    /\ last = LastOp("init")

\* The UTC date changes
Tick ==
    /\ today < MaxDay
    /\ today' = today + 1
    /\ closedToday' = 0
    /\ last' = LastOp("tick")
    /\ UNCHANGED <<bankroll, open_positions, daily_pnl, pnl_date, max_daily_loss,
                   orders, exchange, batchLeft, closes>>
    /\ UNCHANGED <<bookVars, liveVars, engineVars, recVars, evalVars, subVars>>

\* RiskManager.check (manager.py:99-175), called on its own
Check(signal) ==
    /\ batchLeft = 0
    /\ LET r == maybe_reset_daily_pnl(daily_pnl, pnl_date, today)
           d == check(signal, open_positions, r.pnl, bankroll, max_daily_loss)
       IN  /\ daily_pnl' = r.pnl
           /\ pnl_date' = r.date
           /\ last' = [LastOp("check") EXCEPT
                         !.signal = signal, !.checked = TRUE, !.decision = d,
                         !.exposure = total_exposure_usd(open_positions),
                         !.was_open = signal.market_id \in DOMAIN open_positions,
                         !.date_changed = (today # pnl_date),
                         !.pnl_before = daily_pnl]
    /\ UNCHANGED <<bankroll, open_positions, max_daily_loss, today, orders,
                   exchange, batchLeft, closedToday, closes>>
    /\ UNCHANGED <<bookVars, liveVars, engineVars, recVars, evalVars, subVars>>

\* RiskManager.record_open (manager.py:179-182), called as its callers do:
\* with the market and the size of the decision check has just approved
RecordOpen ==
    /\ batchLeft = 0
    /\ last.op = "check"
    /\ last.decision.approved
    /\ open_positions' = record_open(open_positions, last.signal.market_id,
                                     last.decision.position_size_usd)
    /\ last' = LastOp("record_open")
    /\ UNCHANGED <<bankroll, daily_pnl, pnl_date, max_daily_loss, today, orders,
                   exchange, batchLeft, closedToday, closes>>
    /\ UNCHANGED <<bookVars, liveVars, engineVars, recVars, evalVars, subVars>>

\* The daily_pnl property (manager.py:94-97)
ReadDailyPnl ==
    /\ batchLeft = 0
    /\ LET r == maybe_reset_daily_pnl(daily_pnl, pnl_date, today)
       IN  /\ daily_pnl' = r.pnl
           /\ pnl_date' = r.date
    /\ last' = LastOp("daily_pnl")
    /\ UNCHANGED <<bankroll, open_positions, max_daily_loss, today, orders,
                   exchange, batchLeft, closedToday, closes>>
    /\ UNCHANGED <<bookVars, liveVars, engineVars, recVars, evalVars, subVars>>

\* RiskManager.record_close (manager.py:184-192)
RecordClose(market_id, pnl_usd) ==
    /\ batchLeft = 0
    /\ closes < MaxCloses
    /\ open_positions' = pop_position(open_positions, market_id)
    /\ daily_pnl' = daily_pnl + pnl_usd
    /\ bankroll' = bankroll + pnl_usd
    /\ closedToday' = closedToday + pnl_usd
    /\ closes' = closes + 1
    /\ last' = LastOp("record_close")
    /\ UNCHANGED <<pnl_date, max_daily_loss, today, orders, exchange, batchLeft>>
    /\ UNCHANGED <<bookVars, liveVars, engineVars, recVars, evalVars, subVars>>

\* RiskManager.update_bankroll (manager.py:194-196)
UpdateBankroll(new_bankroll) ==
    /\ batchLeft = 0
    /\ bankroll' = new_bankroll
    /\ last' = LastOp("update_bankroll")
    /\ UNCHANGED <<open_positions, daily_pnl, pnl_date, max_daily_loss, today,
                   orders, exchange, batchLeft, closedToday, closes>>
    /\ UNCHANGED <<bookVars, liveVars, engineVars, recVars, evalVars, subVars>>

\* RiskManager._kelly(signal), as check calls it (manager.py:140), for signals of
\* either direction whose metadata has no best_bid key, best_bid None, or a
\* best_bid of 0.0, 0.005, 0.30, 0.45, 0.55, 0.995 or 1.0
KellyBids ==
    {Bid("absent", 0), Bid("null", 0)}
        \cup {Bid("num", v) : v \in {0, 5, 300, 450, 550, 995, 1000}}

KellySignals == [market_id: Markets, direction: Directions,
                 edge_estimate: Edges, best_bid: KellyBids]

Kelly(signal) ==
    /\ last' = [op |-> "kelly", signal |-> signal, entry |-> kelly_entry(signal),
                kelly |-> kelly(signal)]
    /\ UNCHANGED <<bankroll, open_positions, daily_pnl, pnl_date, max_daily_loss,
                   today, orders, exchange, batchLeft, closedToday, closes>>
    /\ UNCHANGED <<bookVars, liveVars, engineVars, recVars, evalVars, subVars>>

NextKelly == \E s \in KellySignals : Kelly(s)

\* The RiskManager driven through its public interface
NextRisk ==
    \/ Tick
    \/ \E s \in Signals : Check(s)
    \/ RecordOpen
    \/ ReadDailyPnl
    \/ \E m \in Markets, p \in PnLs : RecordClose(m, p)
    \/ \E b \in Bankrolls : UpdateBankroll(b)


----------------------------------------------------------------------------
\* The signal path of the live loop (live_trading.py:158-186)

\* SignalEngine hands a list of n signals to on_signals (live_trading.py:161)
OnSignalsStart(n) ==
    /\ batchLeft = 0
    /\ Len(orders) + n <= MaxOrders
    /\ batchLeft' = n
    /\ last' = LastOp("on_signals")
    /\ UNCHANGED <<bankroll, open_positions, daily_pnl, pnl_date, max_daily_loss,
                   today, orders, exchange, closedToday, closes>>
    /\ UNCHANGED <<bookVars, liveVars, engineVars, recVars, evalVars, subVars>>

\* One iteration of the loop of on_signals (live_trading.py:162-184)
OnSignalsStep(signal, o) ==
    /\ batchLeft > 0
    /\ IF ~o.logSignal
       THEN \* event_db.log_signal raises: the exception leaves on_signals
            /\ batchLeft' = 0
            /\ last' = [LastOp("signal") EXCEPT !.signal = signal, !.result = "raised"]
            /\ UNCHANGED <<bankroll, open_positions, daily_pnl, pnl_date,
                           max_daily_loss, today, orders, exchange, closedToday,
                           closes>>
       ELSE
         LET r  == maybe_reset_daily_pnl(daily_pnl, pnl_date, today)
             d  == check(signal, open_positions, r.pnl, bankroll, max_daily_loss)
             ex == IF d.approved
                   THEN execute(signal, o, orders, exchange)
                   ELSE [orders |-> orders, exchange |-> exchange, result |-> "none"]
         IN  /\ daily_pnl' = r.pnl
             /\ pnl_date' = r.date
             /\ orders' = ex.orders
             /\ exchange' = ex.exchange
             /\ open_positions' =
                    IF ex.result = "true"
                    THEN record_open(open_positions, signal.market_id,
                                     d.position_size_usd)
                    ELSE open_positions
             /\ batchLeft' = IF ex.result = "raised" THEN 0 ELSE batchLeft - 1
             /\ last' = [op |-> "signal", signal |-> signal, checked |-> TRUE,
                         decision |-> d,
                         exposure |-> total_exposure_usd(open_positions),
                         was_open |-> signal.market_id \in DOMAIN open_positions,
                         date_changed |-> (today # pnl_date),
                         pnl_before |-> daily_pnl,
                         place |-> IF d.approved /\ o.logOrder THEN o.place
                                   ELSE "none",
                         result |-> ex.result]
             /\ UNCHANGED <<bankroll, max_daily_loss, today, closedToday, closes>>
    /\ UNCHANGED <<bookVars, liveVars, engineVars, recVars, evalVars, subVars>>

\* on_signals, with the position-close path calling record_close between calls
NextSignals ==
    \/ \E n \in 1..MaxOrders : OnSignalsStart(n)
    \/ \E s \in Signals, o \in Outcomes : OnSignalsStep(s, o)
    \/ \E m \in Markets, p \in PnLs : RecordClose(m, p)


----------------------------------------------------------------------------
\* LiveOrderBook (adapters/base.py:46-108).  A side of the book is a function
\* from the prices that have a level to their sizes.  Canonical prices are in
\* cents: the adapter's p / 100.0 is the model's p.

MaxSize       == 2   \* largest size an increment may build up at one level
MaxBookLevels == 1   \* levels (bids and asks together) of an apply_snapshot
                     \* call in a sequence of book operations
MaxSnapLevels == 2   \* levels (yes and no together) of a snapshot frame that
                     \* is handled on its own

Tickers    == {"", "K"}        \* msg["market_ticker"]; "" is a missing ticker
YesCents   == {54, 55}         \* prices of the YES ladder, cents
NoCents    == {40, 45}         \* prices of the NO ladder, cents

\* Sizes are Python floats: whole numbers here, and NaN, which json.loads and
\* float() both produce ("NaN", "nan").  Every ordered comparison with NaN is
\* false and every sum with NaN is NaN.
NaN == -1000
IsNaN(x)   == x = NaN
gt0(x)     == ~IsNaN(x) /\ x > 0
le0_strict(x) == ~IsNaN(x) /\ x < 0
le0(x)     == ~IsNaN(x) /\ x <= 0
fadd(x, y) == IF IsNaN(x) \/ IsNaN(y) THEN NaN ELSE x + y

FrameSizes == {NaN, -1, 0, 1, 2}   \* sizes a snapshot frame carries
Deltas     == {NaN, -1, 1}         \* delta passed to apply_delta_increment
NewSizes   == {NaN, 0, 2}          \* new_size passed to apply_delta

EmptyMap == [p \in {} |-> 0]

Put(m, price, size) ==
    [p \in DOMAIN m \cup {price} |-> IF p = price THEN size ELSE m[p]]
Pop(m, price) == [p \in DOMAIN m \ {price} |-> m[p]]
Get(m, price, dflt) == IF price \in DOMAIN m THEN m[price] ELSE dflt

\* LiveOrderBook.__init__
NewBook == [bids |-> EmptyMap, asks |-> EmptyMap, is_synced |-> FALSE]

\* {float(p): float(s) for p, s in levels if float(s) > 0}: a later entry of
\* the list overwrites an earlier one with the same price
snapshot_side(levels) ==
    LET keep == {i \in DOMAIN levels : gt0(levels[i][2])}
    IN  [p \in {levels[i][1] : i \in keep} |->
            levels[CHOOSE i \in keep :
                     /\ levels[i][1] = p
                     /\ \A j \in keep : levels[j][1] = p => j <= i][2]]

\* LiveOrderBook.apply_snapshot
apply_snapshot_merge(book, bids, asks) ==
    LET Overlay(old, new) ==
            [p \in DOMAIN old \cup DOMAIN new |->
                IF p \in DOMAIN new THEN new[p] ELSE old[p]]
    IN  [bids |-> Overlay(book.bids, snapshot_side(bids)),
         asks |-> Overlay(book.asks, snapshot_side(asks)),
         is_synced |-> TRUE]

apply_snapshot(book, bids, asks) ==
    [bids |-> snapshot_side(bids), asks |-> snapshot_side(asks),
     is_synced |-> TRUE]

SideOf(book, side) == IF side = "bid" THEN book.bids ELSE book.asks
WithSide(book, side, m) ==
    IF side = "bid" THEN [book EXCEPT !.bids = m] ELSE [book EXCEPT !.asks = m]

\* LiveOrderBook.apply_delta
apply_delta(book, side, price, new_size) ==
    LET m == SideOf(book, side)
    IN  WithSide(book, side,
                 IF le0(new_size) THEN Pop(m, price) ELSE Put(m, price, new_size))

\* LiveOrderBook.apply_delta_increment
apply_delta_increment_synced(book, side, price, delta) ==
    LET m        == SideOf(book, side)
        new_size == fadd(Get(m, price, 0), delta)
    IN  [WithSide(book, side,
                  IF le0(new_size) THEN Pop(m, price) ELSE Put(m, price, new_size))
            EXCEPT !.is_synced = TRUE]

\* LiveOrderBook.apply_delta_increment
apply_delta_increment(book, side, price, delta) ==
    LET m        == SideOf(book, side)
        new_size == fadd(Get(m, price, 0), delta)
    IN  WithSide(book, side,
                 IF le0(new_size) THEN Pop(m, price) ELSE Put(m, price, new_size))

\* BaseMarketAdapter._get_or_create_book
get_or_create_book(bs, ticker) ==
    IF ticker \in DOMAIN bs THEN bs
    ELSE [k \in DOMAIN bs \cup {ticker} |-> IF k = ticker THEN NewBook ELSE bs[k]]

----------------------------------------------------------------------------
\* KalshiWSAdapter frame handlers (adapters/kalshi_ws.py:135-175)

\* a NO bid at p cents is a YES ask at 100 - p cents
yes_ask_price_same(price_cents) == price_cents

yes_ask_price(price_cents) == 100 - price_cents

kalshi_bids(yes_levels) ==
    [i \in DOMAIN yes_levels |-> <<yes_levels[i][1], yes_levels[i][2]>>]
kalshi_asks(no_levels) ==
    [i \in DOMAIN no_levels |-> <<yes_ask_price(no_levels[i][1]), no_levels[i][2]>>]

\* KalshiWSAdapter._handle_snapshot: the registry after the frame
handle_snapshot(bs, msg) ==
    IF msg.market_ticker = "" THEN bs
    ELSE LET b1 == get_or_create_book(bs, msg.market_ticker)
         IN  [b1 EXCEPT ![msg.market_ticker] =
                 apply_snapshot(@, kalshi_bids(msg.yes), kalshi_asks(msg.no))]

\* the side and canonical price an orderbook_delta frame addresses
DeltaSide_bid(msg) == "bid"

DeltaSide(msg)  == IF msg.side = "yes" THEN "bid" ELSE "ask"
DeltaPrice(msg) == IF msg.side = "yes" THEN msg.price ELSE yes_ask_price(msg.price)

\* KalshiWSAdapter._handle_delta: the registry after the frame
handle_delta(bs, msg) ==
    IF msg.market_ticker = "" THEN bs
    ELSE LET b1 == get_or_create_book(bs, msg.market_ticker)
         IN  [b1 EXCEPT ![msg.market_ticker] =
                 apply_delta_increment(@, DeltaSide(msg), DeltaPrice(msg),
                                       msg.delta)]

\* Frames
SeqsUpTo(S, n) == UNION {[1..k -> S] : k \in 0..n}
YesLevels == YesCents \X FrameSizes
NoLevels  == NoCents \X FrameSizes

\* orderbook_snapshot messages with at most n levels, yes and no together
SnapshotFrames(n) ==
    UNION { { [market_ticker |-> t, yes |-> y, no |-> x] :
                t \in Tickers, x \in SeqsUpTo(NoLevels, n - Len(y)) } :
            y \in SeqsUpTo(YesLevels, n) }

NoFrame == [market_ticker |-> "", yes |-> <<>>, no |-> <<>>]

LastFrame(kind, ticker) ==
    [kind |-> kind, market_ticker |-> ticker, yes |-> <<>>, no |-> <<>>,
     side |-> "", price |-> 0, delta |-> 0, prev |-> 0]

\* the book-update callbacks of the program
CallbackNames == {"recorder.on_book_update", "signal_engine.evaluate_all"}

MaxCallbacks == 2      \* registrations on one book

\* LiveOrderBook._fire_callbacks after a mutation that left the book as given:
\* the invocations made, in order; an Exception from fn(self) is caught and
\* logged, and the loop goes on
fire_callbacks_abort(cbs, raising, book) ==
    LET stop == IF \E i \in 1..Len(cbs) : cbs[i] \in raising
                THEN CHOOSE i \in 1..Len(cbs) :
                        /\ cbs[i] \in raising
                        /\ \A j \in 1..(i - 1) : cbs[j] \notin raising
                ELSE Len(cbs)
    IN  [i \in 1..stop |-> [fn |-> cbs[i], saw |-> book, raised |-> cbs[i] \in raising]]

fire_callbacks(cbs, raising, book) ==
    [i \in 1..Len(cbs) |-> [fn |-> cbs[i], saw |-> book, raised |-> cbs[i] \in raising]]

\* the callback lists after books were created: a new book gets the adapter's
\* global callbacks (subscribe, _get_or_create_book)
register(cbs, bs, global) ==
    [k \in DOMAIN bs |-> IF k \in DOMAIN cbs THEN cbs[k] ELSE global]

\* the invocations a frame for the ticker causes
frame_callbacks(cbs, raising, bs, ticker) ==
    IF ticker \in DOMAIN bs THEN fire_callbacks(cbs[ticker], raising, bs[ticker])
    ELSE <<>>

\* The history of each book: the operation that created it, and whether
\* apply_snapshot has been called on it
EmptyLog == [k \in {} |-> [created_by |-> "", snapshotted |-> FALSE]]

LogCreated(log, ticker, how) ==
    IF ticker \in DOMAIN log THEN log
    ELSE [k \in DOMAIN log \cup {ticker} |->
            IF k = ticker THEN [created_by |-> how, snapshotted |-> FALSE]
            ELSE log[k]]

LogSnapshot(log, ticker) == [log EXCEPT ![ticker].snapshotted = TRUE]

\* the history after a frame of the given type for the given ticker
LogFrame(log, type, ticker) ==
    IF ticker = "" \/ type \notin {"orderbook_snapshot", "orderbook_delta",
                                   "book", "price_change"} THEN log
    ELSE IF type \in {"orderbook_snapshot", "book"}
         THEN LogSnapshot(LogCreated(log, ticker, type), ticker)
         ELSE LogCreated(log, ticker, type)

\* the history of books that subscribe created
LogOf(bs) ==
    [k \in DOMAIN bs |-> [created_by |-> "subscribe", snapshotted |-> bs[k].is_synced]]

\* no _send_subscribe call yet
NothingSent == [called |-> FALSE, market_ids |-> {}, frame |-> FALSE, ids |-> {}]

\* _subscriptions holds the ids whose books subscribe created; nothing was sent
InitSubscriptions ==
    /\ subscriptions = {k \in DOMAIN bookLog : bookLog[k].created_by = "subscribe"}
    /\ sent = NothingSent

\* BaseMarketAdapter.__init__: an empty registry
InitBook ==
    /\ books = [k \in {} |-> NewBook]
    /\ inbox = NoFrame
    /\ lastFrame = LastFrame("none", "")
    /\ bookLog = EmptyLog
    /\ callbacks = [k \in DOMAIN books |-> <<>>]
    /\ raises = {}
    /\ cbLog = <<>>

\* The size a level has in the registry, 0 when the book or level is absent
LevelSize(bs, ticker, side, price) ==
    IF ticker \in DOMAIN bs THEN Get(SideOf(bs[ticker], side), price, 0) ELSE 0

----------------------------------------------------------------------------
\* The three mutators of one LiveOrderBook called in any order.  The book has
\* no callbacks registered, so _fire_callbacks has nothing to call.

BidPrices  == YesCents
AskPrices  == {yes_ask_price(p) : p \in NoCents}
BookSides  == {"bid", "ask"}
PricesOf(side) == IF side = "bid" THEN BidPrices ELSE AskPrices
CallSizes  == {NaN, -1, 0, 2}  \* sizes passed to apply_snapshot

\* bids and asks lists with at most n levels together
SnapshotCallsOver(sizes, n) ==
    UNION { { [bids |-> b, asks |-> a] :
                a \in SeqsUpTo(AskPrices \X sizes, n - Len(b)) } :
            b \in SeqsUpTo(BidPrices \X sizes, n) }

SnapshotCalls(n) == SnapshotCallsOver(CallSizes, n)

\* subscribe(["K"]) has created the book
InitOneBook ==
    /\ books = [k \in {"K"} |-> NewBook]
    /\ inbox = NoFrame
    /\ lastFrame = LastFrame("none", "")
    /\ bookLog = LogOf(books)
    /\ callbacks = [k \in DOMAIN books |-> <<>>]
    /\ raises = {}
    /\ cbLog = <<>>

\* the number of levels a book holds
LevelCount(book) == Cardinality(DOMAIN book.bids) + Cardinality(DOMAIN book.asks)

\* LiveOrderBook.apply_snapshot is called; the call's bids and asks are kept in
\* lastFrame.yes and lastFrame.no, the number of levels it found in prev
ApplySnapshot(ticker, call) ==
    /\ ticker \in DOMAIN books
    /\ books' = [books EXCEPT ![ticker] = apply_snapshot(@, call.bids, call.asks)]
    /\ lastFrame' = [LastFrame("apply_snapshot", ticker)
                        EXCEPT !.yes = call.bids, !.no = call.asks,
                               !.prev = LevelCount(books[ticker])]
    /\ bookLog' = LogSnapshot(bookLog, ticker)
    /\ cbLog' = fire_callbacks(callbacks[ticker], raises, books'[ticker])
    /\ UNCHANGED <<inbox, callbacks, raises>>
    /\ UNCHANGED <<riskVars, liveVars, engineVars, recVars, evalVars, subVars>>

\* LiveOrderBook.apply_delta is called
ApplyDelta(ticker, side, price, new_size) ==
    /\ ticker \in DOMAIN books
    /\ books' = [books EXCEPT ![ticker] = apply_delta(@, side, price, new_size)]
    /\ lastFrame' = [LastFrame("apply_delta", ticker)
                        EXCEPT !.side = side, !.price = price, !.delta = new_size,
                               !.prev = LevelSize(books, ticker, side, price)]
    /\ cbLog' = fire_callbacks(callbacks[ticker], raises, books'[ticker])
    /\ UNCHANGED <<inbox, bookLog, callbacks, raises>>
    /\ UNCHANGED <<riskVars, liveVars, engineVars, recVars, evalVars, subVars>>

\* LiveOrderBook.apply_delta_increment is called
ApplyDeltaIncrement(ticker, side, price, delta) ==
    /\ ticker \in DOMAIN books
    /\ LET new_size == fadd(LevelSize(books, ticker, side, price), delta)
       IN  IsNaN(new_size) \/ new_size <= MaxSize
    /\ books' = [books EXCEPT ![ticker] =
                    apply_delta_increment(@, side, price, delta)]
    /\ lastFrame' = [LastFrame("apply_delta_increment", ticker)
                        EXCEPT !.side = side, !.price = price, !.delta = delta,
                               !.prev = LevelSize(books, ticker, side, price)]
    /\ cbLog' = fire_callbacks(callbacks[ticker], raises, books'[ticker])
    /\ UNCHANGED <<inbox, bookLog, callbacks, raises>>
    /\ UNCHANGED <<riskVars, liveVars, engineVars, recVars, evalVars, subVars>>

\* LiveOrderBook.apply_snapshot is called again with the bids and asks of the
\* call before
ApplySnapshotAgain(ticker) ==
    /\ ticker \in DOMAIN books
    /\ lastFrame.kind \in {"apply_snapshot", "apply_snapshot_again"}
    /\ lastFrame.market_ticker = ticker
    /\ books' = [books EXCEPT ![ticker] =
                    apply_snapshot(@, lastFrame.yes, lastFrame.no)]
    /\ lastFrame' = [lastFrame EXCEPT !.kind = "apply_snapshot_again",
                                      !.prev = LevelCount(books[ticker])]
    /\ bookLog' = LogSnapshot(bookLog, ticker)
    /\ cbLog' = fire_callbacks(callbacks[ticker], raises, books'[ticker])
    /\ UNCHANGED <<inbox, callbacks, raises>>
    /\ UNCHANGED <<riskVars, liveVars, engineVars, recVars, evalVars, subVars>>

\* LiveOrderBook.apply_delta is called again with the side, price and size of
\* the call before
ApplyDeltaAgain(ticker) ==
    /\ ticker \in DOMAIN books
    /\ lastFrame.kind \in {"apply_delta", "apply_delta_again"}
    /\ lastFrame.market_ticker = ticker
    /\ books' = [books EXCEPT ![ticker] =
                    apply_delta(@, lastFrame.side, lastFrame.price, lastFrame.delta)]
    /\ lastFrame' = [lastFrame EXCEPT
                        !.kind = "apply_delta_again",
                        !.prev = LevelSize(books, ticker, lastFrame.side, lastFrame.price)]
    /\ cbLog' = fire_callbacks(callbacks[ticker], raises, books'[ticker])
    /\ UNCHANGED <<inbox, bookLog, callbacks, raises>>
    /\ UNCHANGED <<riskVars, liveVars, engineVars, recVars, evalVars, subVars>>

RepeatSizes == {0, 1, 2}     \* sizes of the snapshots that are repeated

NextRepeat ==
    \/ \E call \in SnapshotCallsOver(RepeatSizes, MaxBookLevels) : ApplySnapshot("K", call)
    \/ \E side \in BookSides : \E p \in PricesOf(side), s \in NewSizes :
          ApplyDelta("K", side, p, s)
    \/ ApplySnapshotAgain("K")
    \/ ApplyDeltaAgain("K")

\* the mutators fed prices that cross: an ask below a bid
CrossBids == {54, 55}
CrossAsks == {53, 56}
CrossPricesOf(side) == IF side = "bid" THEN CrossBids ELSE CrossAsks
CrossSizes == {0, 1}

CrossCalls(n) ==
    UNION { { [bids |-> b, asks |-> a] :
                a \in SeqsUpTo(CrossAsks \X {1}, n - Len(b)) } :
            b \in SeqsUpTo(CrossBids \X {1}, n) }

NextCross ==
    \/ \E call \in CrossCalls(MaxBookLevels + 1) : ApplySnapshot("K", call)
    \/ \E side \in BookSides : \E p \in CrossPricesOf(side), s \in CrossSizes :
          ApplyDelta("K", side, p, s)

NextBook ==
    \/ \E call \in SnapshotCalls(MaxBookLevels) : ApplySnapshot("K", call)
    \/ \E side \in BookSides : \E p \in PricesOf(side), s \in NewSizes :
          ApplyDelta("K", side, p, s)
    \/ \E side \in BookSides : \E p \in PricesOf(side), d \in Deltas :
          ApplyDeltaIncrement("K", side, p, d)

----------------------------------------------------------------------------
\* An adapter's registry from its construction on: books are created by
\* subscribe or by the first frame for a ticker, and changed by frames and by
\* direct calls of the mutators.

\* BaseMarketAdapter.subscribe([ticker])
Subscribe(ticker) ==
    /\ books' = get_or_create_book(books, ticker)
    /\ bookLog' = LogCreated(bookLog, ticker, "subscribe")
    /\ lastFrame' = LastFrame("subscribe", ticker)
    /\ callbacks' = register(callbacks, books', global_callbacks)
    /\ cbLog' = <<>>
    /\ subscriptions' = subscriptions \cup {ticker}
    /\ UNCHANGED <<inbox, raises, sent>>
    /\ UNCHANGED <<riskVars, liveVars, engineVars, recVars, evalVars>>

\* KalshiWSAdapter._handle_snapshot(msg)
KalshiSnapshot(msg) ==
    /\ books' = handle_snapshot(books, msg)
    /\ bookLog' = LogFrame(bookLog, "orderbook_snapshot", msg.market_ticker)
    /\ callbacks' = register(callbacks, books', global_callbacks)
    /\ cbLog' = frame_callbacks(callbacks', raises, books', msg.market_ticker)
    /\ UNCHANGED raises
    /\ lastFrame' = [LastFrame("orderbook_snapshot", msg.market_ticker)
                        EXCEPT !.yes = msg.yes, !.no = msg.no]
    /\ UNCHANGED inbox
    /\ UNCHANGED <<riskVars, liveVars, engineVars, recVars, evalVars, subVars>>

\* KalshiWSAdapter._handle_delta(msg)
KalshiDelta(msg) ==
    /\ LET new_size == fadd(LevelSize(books, msg.market_ticker, DeltaSide(msg),
                                      DeltaPrice(msg)), msg.delta)
       IN  IsNaN(new_size) \/ new_size <= MaxSize
    /\ books' = handle_delta(books, msg)
    /\ bookLog' = LogFrame(bookLog, "orderbook_delta", msg.market_ticker)
    /\ callbacks' = register(callbacks, books', global_callbacks)
    /\ cbLog' = frame_callbacks(callbacks', raises, books', msg.market_ticker)
    /\ UNCHANGED raises
    /\ lastFrame' = [LastFrame("orderbook_delta", msg.market_ticker)
                        EXCEPT !.side = msg.side, !.price = msg.price,
                               !.delta = msg.delta,
                               !.prev = LevelSize(books, msg.market_ticker,
                                                  DeltaSide(msg), DeltaPrice(msg))]
    /\ UNCHANGED inbox
    /\ UNCHANGED <<riskVars, liveVars, engineVars, recVars, evalVars, subVars>>

\* One level a side: bid 0.55 (YES 55c), ask 0.60 (NO 40c)
SyncSnapshots ==
    { [market_ticker |-> t, yes |-> y, no |-> n] :
        t \in Tickers, y \in {<<>>, <<<<55, 2>>>>}, n \in {<<>>, <<<<40, 1>>>>} }

SyncDeltas ==
    { [market_ticker |-> t, side |-> s.side, price |-> s.price, delta |-> d] :
        t \in Tickers,
        s \in {[side |-> "yes", price |-> 55], [side |-> "no", price |-> 40]},
        d \in {-1, 1} }

SyncCalls ==
    { [bids |-> b, asks |-> a] :
        b \in {<<>>, <<<<55, 2>>>>}, a \in {<<>>, <<<<60, 1>>>>} }

SyncLevels == {[side |-> "bid", price |-> 55], [side |-> "ask", price |-> 60]}

NextSync ==
    \/ Subscribe("K")
    \/ \E msg \in SyncSnapshots : KalshiSnapshot(msg)
    \/ \E msg \in SyncDeltas : KalshiDelta(msg)
    \/ \E call \in SyncCalls : ApplySnapshot("K", call)
    \/ \E l \in SyncLevels, s \in {0, 2} : ApplyDelta("K", l.side, l.price, s)
    \/ \E l \in SyncLevels, d \in {-1, 1} :
          ApplyDeltaIncrement("K", l.side, l.price, d)

\* One orderbook_snapshot frame arrives at an adapter whose registry is empty,
\* holds a book built by deltas only, or holds a synced book.
PriorBooks ==
    { [k \in {} |-> NewBook],
      [k \in {"K"} |-> [NewBook EXCEPT !.bids = Put(EmptyMap, 54, 1)]],
      [k \in {"K"} |-> [bids |-> Put(Put(EmptyMap, 54, 1), 55, 2),
                        asks |-> Put(EmptyMap, 60, 1), is_synced |-> TRUE]] }

\* One apply_snapshot call on a book that is new, was built by deltas only, or
\* is synced
InitOneSnapshot ==
    /\ books \in {bs \in PriorBooks : "K" \in DOMAIN bs} \cup {[k \in {"K"} |-> NewBook]}
    /\ inbox = NoFrame
    /\ lastFrame = LastFrame("none", "")
    /\ bookLog = LogOf(books)
    /\ callbacks = [k \in DOMAIN books |-> <<>>]
    /\ raises = {}
    /\ cbLog = <<>>

SnapshotOnce(call) ==
    /\ lastFrame.kind = "none"
    /\ ApplySnapshot("K", call)

NextReplace ==
    \E call \in SnapshotCallsOver(FrameSizes, MaxSnapLevels) : SnapshotOnce(call)

\* One mutator call on a book that has callbacks registered, some of which
\* raise
CallbackLists(n) ==
    UNION { [1..k -> CallbackNames] : k \in 0..n }

InitOneCall ==
    /\ books \in {bs \in PriorBooks : "K" \in DOMAIN bs} \cup {[k \in {"K"} |-> NewBook]}
    /\ inbox = NoFrame
    /\ lastFrame = LastFrame("none", "")
    /\ bookLog = LogOf(books)
    /\ callbacks \in [{"K"} -> CallbackLists(MaxCallbacks)]
    /\ raises \in SUBSET CallbackNames
    /\ cbLog = <<>>

SnapshotCall(call) ==
    /\ lastFrame.kind = "none"
    /\ ApplySnapshot("K", call)

DeltaCall(side, price, new_size) ==
    /\ lastFrame.kind = "none"
    /\ ApplyDelta("K", side, price, new_size)

IncrementCall(side, price, delta) ==
    /\ lastFrame.kind = "none"
    /\ ApplyDeltaIncrement("K", side, price, delta)

NextFire ==
    \/ \E call \in SyncCalls : SnapshotCall(call)
    \/ \E l \in SyncLevels, s \in {0, 2} : DeltaCall(l.side, l.price, s)
    \/ \E l \in SyncLevels, d \in {-1, 1} : IncrementCall(l.side, l.price, d)

\* _handle_message dispatches the waiting orderbook_snapshot frame
ReadSnapshot ==
    /\ lastFrame.kind = "none"
    /\ books' = handle_snapshot(books, inbox)
    /\ lastFrame' = [LastFrame("orderbook_snapshot", inbox.market_ticker)
                        EXCEPT !.yes = inbox.yes, !.no = inbox.no]
    /\ bookLog' = LogFrame(bookLog, "orderbook_snapshot", inbox.market_ticker)
    /\ callbacks' = register(callbacks, books', global_callbacks)
    /\ cbLog' = frame_callbacks(callbacks', raises, books', inbox.market_ticker)
    /\ UNCHANGED raises
    /\ inbox' = NoFrame
    /\ UNCHANGED <<riskVars, liveVars, engineVars, recVars, evalVars, subVars>>

NextSnap == ReadSnapshot

----------------------------------------------------------------------------
\* BaseMarketAdapter.run (adapters/base.py:295-338) as wired by run_live
\* (live_trading.py:253-431)

MaxFrames == 2         \* frames one behaviour reads from the socket

reconnect_delay_initial == 1
reconnect_delay_max     == 64


\* A frame of the Kalshi feed and a frame of the Polymarket feed.  payload
\* tells what the text of the frame is: "ok" a JSON object with well-formed
\* fields, "not_json" text json.loads rejects, "bad_number" a JSON object whose
\* price is not a number.
KalshiFrame(type, payload, ticker, yes, no, side, price, delta) ==
    [type |-> type, payload |-> payload,
     msg  |-> [market_ticker |-> ticker, yes |-> yes, no |-> no,
               side |-> side, price |-> price, delta |-> delta,
               asset_id |-> "", bids |-> <<>>, asks |-> <<>>, changes |-> <<>>]]

PolyFrame(type, payload, asset_id, bids, asks, changes) ==
    [type |-> type, payload |-> payload,
     msg  |-> [market_ticker |-> "", yes |-> <<>>, no |-> <<>>,
               side |-> "", price |-> 0, delta |-> 0,
               asset_id |-> asset_id, bids |-> bids, asks |-> asks,
               changes |-> changes]]

\* no frame in _handle_message
NoMessage == KalshiFrame("", "", "", <<>>, <<>>, "", 0, 0)

NotStopped == [pc |-> "", left |-> 0]

Platforms == {"kalshi", "polymarket"}

\* BaseMarketAdapter.__init__: no callbacks, not running
InitAdapter ==
    /\ running = FALSE
    /\ pc = "idle"
    /\ delay = reconnect_delay_initial
    /\ global_callbacks = <<>>
    /\ fired = [c \in CallbackNames |-> 0]
    /\ frames_read = 0
    /\ updates_applied = 0
    /\ message = NoMessage
    /\ sleep_left = 0
    /\ slept = 0
    /\ error = ""
    /\ stop_at = NotStopped
    /\ platform = "kalshi"

\* run_live up to the creation of the adapter task: the recorder is the one
\* callback it registers on the adapter
RunLiveCallbacks == <<"recorder.on_book_update">>

InitRunLive ==
    /\ running = FALSE
    /\ pc = "idle"
    /\ delay = reconnect_delay_initial
    /\ global_callbacks = RunLiveCallbacks
    /\ fired = [c \in CallbackNames |-> 0]
    /\ frames_read = 0
    /\ updates_applied = 0
    /\ message = NoMessage
    /\ sleep_left = 0
    /\ slept = 0
    /\ error = ""
    /\ stop_at = NotStopped
    /\ platform \in Platforms

\* the calls each callback has received, after the invocations in log
tally(f, log) ==
    [c \in DOMAIN f |-> f[c] + Cardinality({i \in DOMAIN log : log[i].fn = c})]

\* Frames the socket delivers to the Kalshi adapter
LiveFrames ==
    { KalshiFrame("orderbook_snapshot", "ok", "K", <<<<55, 2>>>>, <<<<40, 1>>>>, "", 0, 0),
      KalshiFrame("orderbook_snapshot", "ok", "", <<<<55, 2>>>>, <<>>, "", 0, 0),
      KalshiFrame("orderbook_delta", "ok", "K", <<>>, <<>>, "yes", 55, -1),
      KalshiFrame("orderbook_delta", "bad_number", "K", <<>>, <<>>, "yes", 0, 1),
      KalshiFrame("", "not_json", "", <<>>, <<>>, "", 0, 0),
      KalshiFrame("heartbeat", "ok", "", <<>>, <<>>, "", 0, 0) }

\* Frames the socket delivers to the Polymarket adapter: one JSON object each,
\* prices in cents
PolyFrames ==
    { PolyFrame("book", "ok", "tokP", <<<<55, 2>>>>, <<<<60, 1>>>>, <<>>),
      PolyFrame("price_change", "ok", "tokP", <<>>, <<>>,
                <<[side |-> "BUY", price |-> 54, size |-> 1],
                  [side |-> "SELL", price |-> 60, size |-> 0]>>),
      PolyFrame("price_change", "ok", "tokP", <<>>, <<>>,
                <<[side |-> "BUY", price |-> 55, size |-> 1],
                  [side |-> "SELL", price |-> 60, size |-> 0],
                  [side |-> "SELL", price |-> 60, size |-> 2]>>),
      PolyFrame("", "not_json", "", <<>>, <<>>, <<>>),
      PolyFrame("tick_size_change", "ok", "tokP", <<>>, <<>>, <<>>) }

FramesOf(adapter) == IF adapter = "kalshi" THEN LiveFrames ELSE PolyFrames

\* json.loads(raw) raises json.JSONDecodeError
json_loads_raises(frame) == frame.payload = "not_json"

\* except json.JSONDecodeError in _handle_message: does it catch the exception
except_JSONDecodeError_none(exc) == FALSE

except_JSONDecodeError(exc) == exc = "JSONDecodeError"

\* the frame is dropped at the top of _handle_message
dropped(frame) == json_loads_raises(frame) /\ except_JSONDecodeError("JSONDecodeError")

\* _handle_message raises: json.loads outside what the handler catches, or
\* float(msg.get("price", 0)) in _handle_delta, after the book was looked up
\* or created
handle_raises(frame) ==
    \/ json_loads_raises(frame) /\ ~except_JSONDecodeError("JSONDecodeError")
    \/ /\ frame.payload = "bad_number"
       /\ frame.type = "orderbook_delta"
       /\ frame.msg.market_ticker # ""

handle_exception(frame) ==
    IF json_loads_raises(frame) THEN "JSONDecodeError" ELSE "ValueError"

\* KalshiWSAdapter._handle_message: the registry after the frame
handle_message(bs, frame) ==
    IF json_loads_raises(frame) THEN bs
    ELSE IF handle_raises(frame) THEN get_or_create_book(bs, frame.msg.market_ticker)
    ELSE IF frame.type = "orderbook_snapshot" THEN handle_snapshot(bs, frame.msg)
    ELSE IF frame.type = "orderbook_delta" THEN handle_delta(bs, frame.msg)
    ELSE bs

\* PolymarketWSAdapter._token_to_market.get(token_id, token_id), with the one
\* mapping registered by register_token_mapping("P", "tokP")
token_to_market(token_id) == IF token_id = "tokP" THEN "P" ELSE token_id

\* the side of a price change
change_side(change) == IF change.side = "BUY" THEN "bid" ELSE "ask"

RECURSIVE price_changes_increment(_, _)
price_changes_increment(book, changes) ==
    IF changes = <<>> THEN book
    ELSE price_changes_increment(
             apply_delta_increment(book, change_side(Head(changes)),
                                   Head(changes).price, Head(changes).size),
             Tail(changes))

\* PolymarketWSAdapter._handle_price_change: apply_delta for each change in turn
RECURSIVE price_changes(_, _)
price_changes(book, changes) ==
    IF changes = <<>> THEN book
    ELSE price_changes(apply_delta(book, change_side(Head(changes)),
                                   Head(changes).price, Head(changes).size),
                       Tail(changes))

\* the callback invocations of these apply_delta calls
RECURSIVE price_change_log(_, _, _, _)
price_change_log(cbs, raising, book, changes) ==
    IF changes = <<>> THEN <<>>
    ELSE LET b == apply_delta(book, change_side(Head(changes)),
                              Head(changes).price, Head(changes).size)
         IN  fire_callbacks(cbs, raising, b)
                \o price_change_log(cbs, raising, b, Tail(changes))

\* PolymarketWSAdapter._handle_message and _dispatch: the registry after the
\* frame
poly_handle_message(bs, frame) ==
    IF json_loads_raises(frame) THEN bs
    ELSE LET id == token_to_market(frame.msg.asset_id)
             b1 == get_or_create_book(bs, id)
         IN  IF frame.type = "book"
               THEN [b1 EXCEPT ![id] = apply_snapshot(@, frame.msg.bids, frame.msg.asks)]
             ELSE IF frame.type = "price_change"
               THEN [b1 EXCEPT ![id] = price_changes(@, frame.msg.changes)]
             ELSE bs

\* the market the frame is about
FrameMarket(frame) ==
    IF frame.type \in {"book", "price_change"} THEN token_to_market(frame.msg.asset_id)
    ELSE frame.msg.market_ticker

\* the frame reaches a mutator of a book
UpdatesBook(frame) ==
    /\ ~json_loads_raises(frame)
    /\ ~handle_raises(frame)
    /\ \/ frame.type \in {"orderbook_snapshot", "orderbook_delta"}
          /\ frame.msg.market_ticker # ""
       \/ frame.type = "book"
       \/ frame.type = "price_change" /\ frame.msg.changes # <<>>

\* The exceptions the try block of run() meets, by the place they are raised:
\* _build_auth_headers and websockets.connect, _send_subscribe, the socket read
\* of async for
TryErrors ==
    { [at |-> "connecting",  exc |-> "ValueError"],
      [at |-> "connecting",  exc |-> "OSError"],
      [at |-> "subscribing", exc |-> "ConnectionClosedError"],
      [at |-> "reading",     exc |-> "ConnectionClosedError"] }

\* except Exception: does the clause catch the exception
except_Exception_narrow(exc) == exc = "ConnectionClosedError"

except_Exception(exc) ==
    exc \in {"ValueError", "JSONDecodeError", "OSError", "ConnectionClosedError"}

\* the delay after a backoff sleep
next_delay_same(d) == d

next_delay(d) == Min(d * 2, reconnect_delay_max)

\* async for: is the frame handed to _handle_message
frame_accepted_always(r) == TRUE

frame_accepted(r) == r

\* asyncio.sleep(delay) returns at once when stop() was called
sleep_over(left, r) == left = 0

\* the except clause of run(): break when stopped, else start the backoff sleep
Except(exc) ==
    /\ error' = exc
    /\ IF ~except_Exception(exc)
         THEN pc' = "raised" /\ UNCHANGED sleep_left
         ELSE IF ~running
                THEN pc' = "stopped" /\ UNCHANGED sleep_left
                ELSE pc' = "sleeping" /\ sleep_left' = delay

\* run() is entered
RunStart ==
    /\ pc = "idle"
    /\ running' = TRUE
    /\ delay' = reconnect_delay_initial
    /\ pc' = "connecting"
    /\ UNCHANGED <<global_callbacks, fired, frames_read, updates_applied, message,
                   sleep_left, slept, error, stop_at, platform>>
    /\ UNCHANGED <<riskVars, bookVars, engineVars, recVars, evalVars, subVars>>

\* _build_auth_headers and websockets.connect succeed: the delay is reset
Connected ==
    /\ pc = "connecting"
    /\ delay' = reconnect_delay_initial
    /\ pc' = "subscribing"
    /\ UNCHANGED <<running, global_callbacks, fired, frames_read, updates_applied,
                   message, sleep_left, slept, error, stop_at, platform>>
    /\ UNCHANGED <<riskVars, bookVars, engineVars, recVars, evalVars, subVars>>

\* PolymarketWSAdapter._market_to_token.get(mid, mid), with the one mapping
\* registered by register_token_mapping("P", "tokP")
market_to_token(mid) == IF mid = "P" THEN "tokP" ELSE mid

\* the ids a subscribe frame names for the registered market ids
venue_ids(adapter, market_ids) ==
    IF adapter = "polymarket" THEN {market_to_token(mid) : mid \in market_ids}
    ELSE market_ids

send_subscribe_always(adapter, market_ids) ==
    [called |-> TRUE, market_ids |-> market_ids, frame |-> TRUE,
     ids |-> venue_ids(adapter, market_ids)]

\* _send_subscribe(ws, market_ids): nothing is sent for an empty list
send_subscribe(adapter, market_ids) ==
    [called |-> TRUE, market_ids |-> market_ids, frame |-> market_ids # {},
     ids |-> venue_ids(adapter, market_ids)]

\* _send_subscribe(ws, list(self._subscriptions)) returns: async for starts to
\* read
Subscribed ==
    /\ pc = "subscribing"
    /\ pc' = "reading"
    /\ sent' = send_subscribe(platform, subscriptions)
    /\ UNCHANGED subscriptions
    /\ UNCHANGED <<running, delay, global_callbacks, fired, frames_read,
                   updates_applied, message, sleep_left, slept, error, stop_at, platform>>
    /\ UNCHANGED <<riskVars, bookVars, engineVars, recVars, evalVars>>

\* building headers, connecting, subscribing or reading raises
ConnectionError(e) ==
    /\ pc = e.at
    /\ Except(e.exc)
    /\ UNCHANGED <<running, delay, global_callbacks, fired, frames_read,
                   updates_applied, message, slept, stop_at, platform>>
    /\ UNCHANGED <<riskVars, bookVars, engineVars, recVars, evalVars, subVars>>

\* part of the backoff sleep passes: all that is left of it, or half
SleepTick(elapsed) ==
    /\ pc = "sleeping"
    /\ sleep_left > 0
    /\ elapsed \in {sleep_left, (sleep_left + 1) \div 2}
    /\ sleep_left' = sleep_left - elapsed
    /\ UNCHANGED <<running, pc, delay, global_callbacks, fired, frames_read,
                   updates_applied, message, slept, error, stop_at, platform>>
    /\ UNCHANGED <<riskVars, bookVars, engineVars, recVars, evalVars, subVars>>

\* asyncio.sleep(delay) returns; the delay doubles up to the maximum, and the
\* while condition is tested again
SleepDone ==
    /\ pc = "sleeping"
    /\ sleep_over(sleep_left, running)
    /\ slept' = delay - sleep_left
    /\ delay' = next_delay(delay)
    /\ pc' = IF running THEN "connecting" ELSE "stopped"
    /\ error' = ""
    /\ UNCHANGED <<running, global_callbacks, fired, frames_read, updates_applied,
                   message, sleep_left, stop_at, platform>>
    /\ UNCHANGED <<riskVars, bookVars, engineVars, recVars, evalVars, subVars>>

\* async for yields a frame: the loop breaks if stop() was called, else the
\* frame is handed to _handle_message
ReadFrame(frame) ==
    /\ pc = "reading"
    /\ frame \in FramesOf(platform)
    /\ frames_read < MaxFrames
    /\ frames_read' = frames_read + 1
    /\ IF frame_accepted(running)
         THEN pc' = "handling" /\ message' = frame
         ELSE pc' = "stopped" /\ UNCHANGED message
    /\ UNCHANGED <<running, delay, global_callbacks, fired, updates_applied,
                   sleep_left, slept, error, stop_at, platform>>
    /\ UNCHANGED <<riskVars, bookVars, engineVars, recVars, evalVars, subVars>>

\* _handle_message(message) runs to its end or raises
HandleMessage ==
    /\ pc = "handling"
    /\ books' = IF platform = "kalshi" THEN handle_message(books, message)
                ELSE poly_handle_message(books, message)
    /\ bookLog' = IF json_loads_raises(message) THEN bookLog
                  ELSE IF handle_raises(message)
                    THEN LogCreated(bookLog, FrameMarket(message), message.type)
                  ELSE LogFrame(bookLog, message.type, FrameMarket(message))
    /\ lastFrame' = [kind |-> IF json_loads_raises(message) THEN "not_json"
                              ELSE message.type,
                     market_ticker |-> FrameMarket(message),
                     yes |-> message.msg.yes, no |-> message.msg.no,
                     side |-> message.msg.side, price |-> message.msg.price,
                     delta |-> message.msg.delta,
                     prev |-> LevelSize(books, message.msg.market_ticker,
                                        DeltaSide(message.msg),
                                        DeltaPrice(message.msg))]
    /\ callbacks' = register(callbacks, books', global_callbacks)
    /\ cbLog' = IF ~UpdatesBook(message) THEN <<>>
                ELSE IF message.type = "price_change"
                  THEN LET id == FrameMarket(message)
                       IN  price_change_log(callbacks'[id], raises,
                                            get_or_create_book(books, id)[id],
                                            message.msg.changes)
                ELSE frame_callbacks(callbacks', raises, books', FrameMarket(message))
    /\ fired' = tally(fired, cbLog')
    /\ updates_applied' = IF UpdatesBook(message) THEN updates_applied + 1
                          ELSE updates_applied
    /\ message' = NoMessage
    /\ IF handle_raises(message)
         THEN Except(handle_exception(message))
         ELSE pc' = "reading" /\ UNCHANGED <<sleep_left, error>>
    /\ UNCHANGED <<running, delay, global_callbacks, frames_read, slept, stop_at,
                   platform>>
    /\ UNCHANGED <<inbox, raises>>
    /\ UNCHANGED <<riskVars, engineVars, recVars, evalVars, subVars>>

\* the server closes the socket cleanly: async for ends, the loop goes round
SocketClosed ==
    /\ pc = "reading"
    /\ pc' = IF running THEN "connecting" ELSE "stopped"
    /\ UNCHANGED <<running, delay, global_callbacks, fired, frames_read,
                   updates_applied, message, sleep_left, slept, error, stop_at, platform>>
    /\ UNCHANGED <<riskVars, bookVars, engineVars, recVars, evalVars, subVars>>

\* BaseMarketAdapter.stop, called while run() is under way
Stop ==
    /\ running
    /\ running' = FALSE
    /\ stop_at' = [pc |-> pc, left |-> sleep_left]
    /\ UNCHANGED <<pc, delay, global_callbacks, fired, frames_read,
                   updates_applied, message, sleep_left, slept, error, platform>>
    /\ UNCHANGED <<riskVars, bookVars, engineVars, recVars, evalVars, subVars>>

\* BaseMarketAdapter.add_global_callback(fn): fn joins the adapter's list and
\* the callbacks of every book in the registry
add_global_callback_list_only(cbs, fn) == cbs

add_global_callback(cbs, fn) == [k \in DOMAIN cbs |-> Append(cbs[k], fn)]

AddGlobalCallback(fn) ==
    /\ Len(global_callbacks) < MaxCallbacks
    /\ global_callbacks' = Append(global_callbacks, fn)
    /\ callbacks' = add_global_callback(callbacks, fn)
    /\ lastFrame' = LastFrame("add_global_callback", "")
    /\ cbLog' = <<>>
    /\ UNCHANGED <<books, inbox, bookLog, raises>>
    /\ UNCHANGED <<running, pc, delay, fired, frames_read, updates_applied,
                   message, sleep_left, slept, error, stop_at, platform>>
    /\ UNCHANGED <<riskVars, engineVars, recVars, evalVars, subVars>>

\* an adapter whose callers subscribe and register callbacks between frames
SubscribeIds == {"K", "P"}

NextRegistry ==
    \/ \E ticker \in SubscribeIds : Subscribe(ticker)
    \/ \E fn \in CallbackNames : AddGlobalCallback(fn)
    \/ \E msg \in SyncSnapshots : KalshiSnapshot(msg)
    \/ \E msg \in SyncDeltas : KalshiDelta(msg)

\* frames and ids of an adapter whose callers subscribe while it runs
AdapterFrames ==
    { KalshiFrame("orderbook_snapshot", "ok", "K", <<<<55, 2>>>>, <<<<40, 1>>>>, "", 0, 0),
      PolyFrame("book", "ok", "tokP", <<<<55, 2>>>>, <<<<60, 1>>>>, <<>>) }

NextAdapter ==
    \/ RunStart
    \/ Connected
    \/ Subscribed
    \/ \E e \in TryErrors : ConnectionError(e)
    \/ \E elapsed \in 1..reconnect_delay_max : SleepTick(elapsed)
    \/ SleepDone
    \/ \E frame \in AdapterFrames : ReadFrame(frame)
    \/ HandleMessage
    \/ SocketClosed
    \/ Stop
    \/ \E ticker \in SubscribeIds : Subscribe(ticker)

NextLive ==
    \/ RunStart
    \/ Connected
    \/ Subscribed
    \/ \E e \in TryErrors : ConnectionError(e)
    \/ \E elapsed \in 1..reconnect_delay_max : SleepTick(elapsed)
    \/ SleepDone
    \/ \E frame \in LiveFrames \cup PolyFrames : ReadFrame(frame)
    \/ HandleMessage
    \/ SocketClosed
    \/ Stop

----------------------------------------------------------------------------
\* SignalEngine (signals/engine.py:62-150).  The detectors are pure functions
\* of the books; one evaluate_all call sees one result per registered pair id
\* and per registered market id: None or a signal.

MaxPairs       == 1    \* register_arb_pair calls
MaxSignalBooks == 1    \* register_book calls

PairIds             == {"A"}
SignalBookIds       == {"K", "P"}
SignalCallbackNames == {"on_signals", "monitor"}

None == [signal_type |-> "none", market_id |-> "", strength |-> 0]

ArbSignal(id, strength) ==
    [signal_type |-> "cross_exchange_arb", market_id |-> id, strength |-> strength]

ImbalanceSignal(id, strength) ==
    [signal_type |-> "book_imbalance", market_id |-> id, strength |-> strength]

\* what CrossExchangeSignal.evaluate returns for each pair, strength in
\* thousandths
ArbResults ==
    [PairIds -> {None, ArbSignal("A", 500)}]

\* what BookImbalanceSignal.evaluate returns for each book
ImbalanceResults ==
    { f \in [SignalBookIds -> {None, ImbalanceSignal("K", 500),
                               ImbalanceSignal("P", 900)}] :
        \A b \in SignalBookIds : f[b] = None \/ f[b].market_id = b }

\* the loops of evaluate_all: the results that are signals, in registration
\* order
RECURSIVE collect(_, _)
collect(ids, results) ==
    IF ids = <<>> THEN <<>>
    ELSE (IF results[Head(ids)] = None THEN <<>> ELSE <<results[Head(ids)]>>)
            \o collect(Tail(ids), results)

\* list.sort(key=strength, reverse=True): stable, highest strength first
RECURSIVE insert_by_strength(_, _)
insert_by_strength(x, s) ==
    IF s = <<>> THEN <<x>>
    ELSE IF Head(s).strength >= x.strength
           THEN <<Head(s)>> \o insert_by_strength(x, Tail(s))
           ELSE <<x>> \o s

RECURSIVE sort_into(_, _)
sort_into(acc, rest) ==
    IF rest = <<>> THEN acc
    ELSE sort_into(insert_by_strength(Head(rest), acc), Tail(rest))

sort_by_strength_unsorted(signals) == signals

sort_by_strength(signals) == sort_into(<<>>, signals)

\* the callback loop of evaluate_all: entered only if signals is non-empty; an
\* Exception from fn(signals) is caught and logged
notify_abort(cbs, raising, signals) ==
    LET stop == IF \E i \in 1..Len(cbs) : cbs[i] \in raising
                THEN CHOOSE i \in 1..Len(cbs) :
                        /\ cbs[i] \in raising
                        /\ \A j \in 1..(i - 1) : cbs[j] \notin raising
                ELSE Len(cbs)
    IN  IF signals = <<>> THEN <<>>
        ELSE [i \in 1..stop |-> [fn |-> cbs[i], got |-> signals,
                                 raised |-> cbs[i] \in raising]]

notify(cbs, raising, signals) ==
    IF signals = <<>> THEN <<>>
    ELSE [i \in 1..Len(cbs) |-> [fn |-> cbs[i], got |-> signals,
                                 raised |-> cbs[i] \in raising]]

\* SignalEngine.evaluate_all: the list it returns
evaluate_all(pairs, bks, arb, imb) ==
    sort_by_strength(collect(pairs, arb) \o collect(bks, imb))

NotEvaluated ==
    [called |-> FALSE, pairs |-> <<>>, books |-> <<>>, callbacks |-> <<>>,
     arb |-> [p \in PairIds |-> None], imb |-> [b \in SignalBookIds |-> None],
     returned |-> <<>>, log |-> <<>>]

\* SignalEngine.__init__
InitEngine ==
    /\ arb_pairs = <<>>
    /\ signal_books = <<>>
    /\ signal_callbacks = <<>>
    /\ lastEval = NotEvaluated

\* SignalEngine.register_arb_pair
RegisterArbPair(id) ==
    /\ Len(arb_pairs) < MaxPairs
    /\ arb_pairs' = Append(arb_pairs, id)
    /\ UNCHANGED <<signal_books, signal_callbacks, lastEval>>
    /\ UNCHANGED <<riskVars, bookVars, liveVars, recVars, evalVars, subVars>>

\* SignalEngine.register_book
RegisterBook(id) ==
    /\ Len(signal_books) < MaxSignalBooks
    /\ signal_books' = Append(signal_books, id)
    /\ UNCHANGED <<arb_pairs, signal_callbacks, lastEval>>
    /\ UNCHANGED <<riskVars, bookVars, liveVars, recVars, evalVars, subVars>>

\* SignalEngine.add_callback
AddCallback(fn) ==
    /\ Len(signal_callbacks) < MaxCallbacks
    /\ signal_callbacks' = Append(signal_callbacks, fn)
    /\ UNCHANGED <<arb_pairs, signal_books, lastEval>>
    /\ UNCHANGED <<riskVars, bookVars, liveVars, recVars, evalVars, subVars>>

\* SignalEngine.evaluate_all, with the detectors returning arb and imb and
\* the registered callbacks in raising raising an Exception
EvaluateAll(arb, imb, raising) ==
    /\ raising \subseteq {signal_callbacks[i] : i \in DOMAIN signal_callbacks}
    /\ lastEval' =
          LET signals == evaluate_all(arb_pairs, signal_books, arb, imb)
          IN  [called |-> TRUE, pairs |-> arb_pairs, books |-> signal_books,
               callbacks |-> signal_callbacks, arb |-> arb, imb |-> imb,
               returned |-> signals,
               log |-> notify(signal_callbacks, raising, signals)]
    /\ UNCHANGED <<arb_pairs, signal_books, signal_callbacks>>
    /\ UNCHANGED <<riskVars, bookVars, liveVars, recVars, evalVars, subVars>>

NextEngine ==
    \/ \E id \in PairIds : RegisterArbPair(id)
    \/ \E id \in SignalBookIds : RegisterBook(id)
    \/ \E fn \in SignalCallbackNames : AddCallback(fn)
    \/ \E arb \in ArbResults, imb \in ImbalanceResults :
          \E raising \in SUBSET SignalCallbackNames : EvaluateAll(arb, imb, raising)

----------------------------------------------------------------------------
\* LiveOrderBook queries (adapters/base.py:112-150) and the two detectors
\* (signals/book_imbalance.py, signals/cross_exchange.py).  Prices are cents,
\* depths are sums of sizes, edges, spreads and strengths are thousandths.

NoPrice == -1     \* get_best_bid / get_best_ask returning None

SetMax(S) == CHOOSE x \in S : \A y \in S : y <= x
SetMin(S) == CHOOSE x \in S : \A y \in S : x <= y

get_best_bid(book) ==
    IF DOMAIN book.bids = {} THEN NoPrice ELSE SetMax(DOMAIN book.bids)

get_best_ask(book) ==
    IF DOMAIN book.asks = {} THEN NoPrice ELSE SetMin(DOMAIN book.asks)

\* sum(v for p, v in side.items() if ...): a float sum, NaN absorbing
RECURSIVE fsum(_, _)
fsum(m, S) ==
    IF S = {} THEN 0
    ELSE LET p == CHOOSE q \in S : TRUE
         IN  fadd(m[p], fsum(m, S \ {p}))

get_bid_depth_all(book, depth_pct) ==
    IF get_best_bid(book) = NoPrice THEN 0
    ELSE fsum(book.bids, DOMAIN book.bids)

\* cutoff = best * (1.0 - depth_pct); levels with p >= cutoff
get_bid_depth(book, depth_pct) ==
    LET best == get_best_bid(book)
    IN  IF best = NoPrice THEN 0
        ELSE fsum(book.bids,
                  {p \in DOMAIN book.bids : p * UNIT >= best * (UNIT - depth_pct)})

\* cutoff = best * (1.0 + depth_pct); levels with p <= cutoff
get_ask_depth(book, depth_pct) ==
    LET best == get_best_ask(book)
    IN  IF best = NoPrice THEN 0
        ELSE fsum(book.asks,
                  {p \in DOMAIN book.asks : p * UNIT <= best * (UNIT + depth_pct)})

\* a float comparison: false when either operand is NaN
flt(a, b) == ~IsNaN(a) /\ ~IsNaN(b) /\ a < b

\* BookImbalanceSignal.__init__ defaults
bullish_threshold == 650      \* 0.65
bearish_threshold == 350      \* 0.35
depth_pct         == 50       \* 0.05
min_depth_usd     == 500      \* 500.0
sensitivity       == 200      \* 0.20
edge_cap          == 150      \* 0.15
Sensitivities     == {sensitivity, 500}

\* CrossExchangeSignal: _FEES and the min_spread values the program uses
poly_fee           == 20      \* 0.02
kalshi_fee         == 70      \* 0.07
min_spread         == 15      \* CrossExchangeSignal() default, 0.015
MIN_EDGE_THRESHOLD == 50      \* cfg.bot.min_edge_threshold default, 0.05
MinSpreads         == {min_spread, MIN_EDGE_THRESHOLD}
CENT               == 10      \* thousandths in one cent

\* signals/base.py Signal: the fields the detectors set
Sig(type, direction, plat, market_id, edge, strength,
    buy_platform, sell_platform, buy_market_id, sell_market_id,
    buy_price, sell_price) ==
    [signal_type |-> type, direction |-> direction, platform |-> plat,
     market_id |-> market_id, edge_estimate |-> edge, strength |-> strength,
     buy_platform |-> buy_platform, sell_platform |-> sell_platform,
     buy_market_id |-> buy_market_id, sell_market_id |-> sell_market_id,
     buy_price |-> buy_price, sell_price |-> sell_price]

\* strength = min(max(strength, 0.0), 1.0)
clamp01(x) == Min(Max(x, 0), UNIT)

cap_edge_none(edge) == edge

\* edge = min(edge, 0.15)
cap_edge(edge) == Min(edge, edge_cap)

is_bullish_inclusive(bid_vol, total_vol) ==
    bid_vol * UNIT >= bullish_threshold * total_vol

\* imbalance > self._bullish, with imbalance = bid_vol / total_vol
is_bullish(bid_vol, total_vol) ==
    bid_vol * UNIT > bullish_threshold * total_vol

\* imbalance < self._bearish
is_bearish(bid_vol, total_vol) ==
    bid_vol * UNIT < bearish_threshold * total_vol

\* BookImbalanceSignal.evaluate from total_vol on (lines 89-139), given the
\* two depths it has read
imbalance_signal(sens, bid_vol, ask_vol, plat, market_id) ==
    LET total_vol == fadd(bid_vol, ask_vol)
        up        == (bid_vol * UNIT - (UNIT \div 2) * total_vol)
        yes_edge  == (up * sens) \div (total_vol * UNIT)
        no_edge   == ((0 - up) * sens) \div (total_vol * UNIT)
        yes_str   == ((bid_vol * UNIT - bullish_threshold * total_vol) * UNIT)
                        \div (total_vol * (UNIT - bullish_threshold))
        no_str    == ((bearish_threshold * total_vol - bid_vol * UNIT) * UNIT)
                        \div (total_vol * bearish_threshold)
        emit(direction, edge, strength) ==
            Sig("book_imbalance", direction, plat, market_id,
                cap_edge(edge), clamp01(strength),
                "", "", "", "", NoPrice, NoPrice)
    IN  IF flt(total_vol, min_depth_usd) THEN None
        ELSE IF IsNaN(total_vol) THEN None    \* imbalance is NaN: no branch taken
        ELSE IF is_bullish(bid_vol, total_vol) THEN emit("BUY_YES", yes_edge, yes_str)
        ELSE IF is_bearish(bid_vol, total_vol) THEN emit("BUY_NO", no_edge, no_str)
        ELSE None

\* BookImbalanceSignal.evaluate(book), for a detector built with sens, with
\* the book unchanged while it runs
book_imbalance_evaluate(sens, book, plat, market_id) ==
    IF ~book.is_synced THEN None
    ELSE imbalance_signal(sens, get_bid_depth(book, depth_pct),
                          get_ask_depth(book, depth_pct), plat, market_id)

\* Leg 1: kalshi_bid - poly_ask - poly_fee - kalshi_fee
spread_poly_buy(poly_book, kalshi_book) ==
    (get_best_bid(kalshi_book) - get_best_ask(poly_book)) * CENT - poly_fee - kalshi_fee

\* Leg 2: poly_bid - kalshi_ask - kalshi_fee - poly_fee
spread_kalshi_buy(poly_book, kalshi_book) ==
    (get_best_bid(poly_book) - get_best_ask(kalshi_book)) * CENT - kalshi_fee - poly_fee

\* None in (poly_ask, poly_bid, kalshi_ask, kalshi_bid)
one_sided(poly_book, kalshi_book) ==
    NoPrice \in {get_best_ask(poly_book), get_best_bid(poly_book),
                 get_best_ask(kalshi_book), get_best_bid(kalshi_book)}

below_min_spread_inclusive(best_spread, min) == best_spread <= min

\* best_spread < self._min_spread
below_min_spread(best_spread, min) == best_spread < min

poly_leg_wins_strict(s_poly, s_kalshi) == s_poly > s_kalshi

\* spread_poly_buy >= spread_kalshi_buy
poly_leg_wins(s_poly, s_kalshi) == s_poly >= s_kalshi

\* CrossExchangeSignal.evaluate, for a detector built with min
cross_exchange_evaluate(min, poly_book, kalshi_book, poly_market_id, kalshi_market_id) ==
    LET s_poly      == spread_poly_buy(poly_book, kalshi_book)
        s_kalshi    == spread_kalshi_buy(poly_book, kalshi_book)
        best_spread == Max(s_poly, s_kalshi)
        strength    == Min((best_spread * UNIT) \div (min * 5), UNIT)
    IN  IF ~poly_book.is_synced \/ ~kalshi_book.is_synced THEN None
        ELSE IF one_sided(poly_book, kalshi_book) THEN None
        ELSE IF below_min_spread(best_spread, min) THEN None
        ELSE IF poly_leg_wins(s_poly, s_kalshi)
          THEN Sig("cross_exchange_arb", "BUY_YES", "polymarket", poly_market_id,
                   best_spread, strength,
                   "polymarket", "kalshi", poly_market_id, kalshi_market_id,
                   get_best_ask(poly_book), get_best_bid(kalshi_book))
          ELSE Sig("cross_exchange_arb", "BUY_YES", "kalshi", kalshi_market_id,
                   best_spread, strength,
                   "kalshi", "polymarket", kalshi_market_id, poly_market_id,
                   get_best_ask(kalshi_book), get_best_bid(poly_book))

\* the platform of the book registered under a market id
platform_of(id) == IF id = "K" THEN "kalshi" ELSE "polymarket"

\* books the detectors may be shown: what snapshots and deltas can build
Side1(p, v)        == [q \in {p} |-> v]
Side2(p, v, q, w)  == [r \in {p, q} |-> IF r = p THEN v ELSE w]

Book(bids, asks, is_synced) ==
    [bids |-> bids, asks |-> asks, is_synced |-> is_synced]

KalshiBooks ==
    {Book(Side1(55, 650), Side1(60, 350), FALSE),
     Book(Side1(55, 651), Side1(60, 349), FALSE),
     Book(Side1(55, 650), Side1(60, 350), TRUE),
     Book(Side1(55, 651), Side1(60, 349), TRUE),
     Book(Side1(55, 350), Side1(60, 650), TRUE),
     Book(Side1(55, 349), Side1(60, 651), TRUE),
     Book(Side2(55, 349, 50, 400), Side1(60, 651), TRUE),
     Book(Side1(55, 400), Side1(60, 100), TRUE),
     Book(Side1(55, 400), Side1(60, 99), TRUE),
     Book(Side1(55, 900), Side1(60, 100), TRUE),
     Book(Side1(55, 250), Side1(60, 250), TRUE),
     Book(Side1(55, NaN), Side1(60, 350), TRUE),
     Book(Side2(60, 300, 57, 351), Side2(60, 200, 63, 149) @@ Side1(70, 500), TRUE),
     Book(EmptyMap, Side1(60, 650), TRUE),
     Book(Side1(55, 650), EmptyMap, TRUE),
     Book(EmptyMap, EmptyMap, TRUE)}

PolyBooks ==
    {[bids |-> Side1(40, 250), asks |-> Side1(44, 250), is_synced |-> FALSE],
     [bids |-> Side1(40, 250), asks |-> Side1(44, 250), is_synced |-> TRUE],
     [bids |-> Side1(40, 250), asks |-> Side1(41, 250), is_synced |-> TRUE],
     [bids |-> Side1(74, 651), asks |-> Side1(76, 349), is_synced |-> TRUE],
     [bids |-> Side1(75, 250), asks |-> Side1(77, 250), is_synced |-> TRUE],
     [bids |-> Side1(74, 250), asks |-> Side1(41, 250), is_synced |-> TRUE],
     [bids |-> EmptyMap,       asks |-> Side1(44, 250), is_synced |-> TRUE],
     [bids |-> Side1(40, 250), asks |-> EmptyMap,       is_synced |-> TRUE],
     [bids |-> Side1(50, 250), asks |-> Side1(52, 250), is_synced |-> TRUE]}

\* the adapters hold one book per venue; nothing is registered with the engine
InitDetectBooks ==
    /\ books \in {[id \in SignalBookIds |-> IF id = "K" THEN k ELSE p] :
                     k \in KalshiBooks, p \in PolyBooks}
    /\ inbox = NoFrame
    /\ lastFrame = LastFrame("none", "")
    /\ bookLog = EmptyLog
    /\ callbacks = [id \in SignalBookIds |-> <<>>]
    /\ raises = {}
    /\ cbLog = <<>>

\* SignalEngine.evaluate_all over the registered pairs and books, the
\* detectors built with sens and min
EvaluateBooks(sens, min) ==
    /\ lastEval' =
          LET arb == [p \in PairIds |->
                        cross_exchange_evaluate(min, books["P"], books["K"], "P", "K")]
              imb == [b \in SignalBookIds |->
                        book_imbalance_evaluate(sens, books[b], platform_of(b), b)]
              signals == evaluate_all(arb_pairs, signal_books, arb, imb)
          IN  [called |-> TRUE, pairs |-> arb_pairs, books |-> signal_books,
               callbacks |-> signal_callbacks, arb |-> arb, imb |-> imb,
               returned |-> signals,
               log |-> notify(signal_callbacks, {}, signals),
               sensitivity |-> sens, min_spread |-> min]
    /\ UNCHANGED <<arb_pairs, signal_books, signal_callbacks>>
    /\ UNCHANGED <<riskVars, bookVars, liveVars, recVars, evalVars, subVars>>

NextDetect ==
    \/ \E id \in PairIds : RegisterArbPair(id)
    \/ \E id \in SignalBookIds : RegisterBook(id)
    \/ \E sens \in Sensitivities, min \in MinSpreads : EvaluateBooks(sens, min)

----------------------------------------------------------------------------
\* BookRecorder (backtest/recorder.py:63-180).  on_book_update tests _closed
\* and reads the clock without the lock, runs the interval test under the
\* lock, releases it, builds the record, and takes the lock again in _write;
\* close() sets _closed without the lock and then closes the handles under
\* it.  Each locked region is one step; the callers are threads.

MaxUpdates == 3        \* on_book_update calls in one behaviour
MaxTicks   == 3        \* clock ticks in one behaviour

min_interval_ms == 100     \* BookRecorder(min_interval_ms=100.0)
TickMs          == 50      \* one tick of the monotonic clock
ClockStart      == 1000    \* time.monotonic() when the recorder is built

RecKeys    == {"kalshi:K", "polymarket:P"}     \* f"{book.platform}:{book.market_id}"
RecThreads == {"t1", "t2"}

IdleCall == [pc |-> "idle", key |-> "", now |-> 0, call |-> 0]

\* BookRecorder.__init__
InitRecorder ==
    /\ rec_closed = FALSE
    /\ rec_handles = {}
    /\ rec_last_write = [k \in {} |-> 0]
    /\ rec_now = ClockStart
    /\ rec_calls = [t \in RecThreads |-> IdleCall]
    /\ rec_close = "idle"
    /\ rec_lines = <<>>
    /\ rec_dropped = {}
    /\ rec_started = 0

too_soon_never(now_mono, prev) == FALSE

\* (now_mono - last) * 1000 < self._min_interval_ms
too_soon(now_mono, prev) == now_mono - prev < min_interval_ms

\* time passes
ClockTick ==
    /\ rec_now < ClockStart + MaxTicks * TickMs
    /\ rec_now' = rec_now + TickMs
    /\ UNCHANGED <<rec_closed, rec_handles, rec_last_write, rec_calls,
                   rec_close, rec_lines, rec_dropped, rec_started>>
    /\ UNCHANGED <<riskVars, bookVars, liveVars, engineVars, evalVars, subVars>>

\* on_book_update, lines 83-88: return if _closed, else read the clock and
\* build the key
OnBookUpdateEnter(t, key) ==
    /\ rec_calls[t].pc = "idle"
    /\ rec_started < MaxUpdates
    /\ rec_started' = rec_started + 1
    /\ rec_calls' = IF rec_closed THEN rec_calls
                    ELSE [rec_calls EXCEPT ![t] =
                            [pc |-> "dedup", key |-> key, now |-> rec_now,
                             call |-> rec_started + 1]]
    /\ UNCHANGED <<rec_closed, rec_handles, rec_last_write, rec_now,
                   rec_close, rec_lines, rec_dropped>>
    /\ UNCHANGED <<riskVars, bookVars, liveVars, engineVars, evalVars, subVars>>

\* on_book_update, lines 91-95: the interval test, under the lock
OnBookUpdateDedup(t) ==
    /\ rec_calls[t].pc = "dedup"
    /\ LET c    == rec_calls[t]
           prev == Get(rec_last_write, c.key, 0)
       IN  IF too_soon(c.now, prev)
             THEN /\ rec_calls' = [rec_calls EXCEPT ![t] = IdleCall]
                  /\ rec_dropped' = rec_dropped \cup {c.call}
                  /\ UNCHANGED rec_last_write
             ELSE /\ rec_calls' = [rec_calls EXCEPT ![t].pc = "write"]
                  /\ rec_last_write' = Put(rec_last_write, c.key, c.now)
                  /\ UNCHANGED rec_dropped
    /\ UNCHANGED <<rec_closed, rec_handles, rec_now, rec_close, rec_lines,
                   rec_started>>
    /\ UNCHANGED <<riskVars, bookVars, liveVars, engineVars, evalVars, subVars>>

\* on_book_update, lines 97-106, and _write under the lock: _get_handle opens
\* the file of the key if _handles has none, the line is written and flushed;
\* a write that raises drops the handle from _handles
OnBookUpdateWrite(t, fails) ==
    /\ rec_calls[t].pc = "write"
    /\ LET c == rec_calls[t]
       IN  /\ rec_handles' = IF fails THEN rec_handles \ {c.key}
                             ELSE rec_handles \cup {c.key}
           /\ rec_lines' =
                 IF fails THEN rec_lines
                 ELSE Append(rec_lines,
                             [key |-> c.key, call |-> c.call, at |-> c.now,
                              opened |-> c.key \notin rec_handles,
                              after_close |-> rec_close = "returned"])
    /\ rec_calls' = [rec_calls EXCEPT ![t] = IdleCall]
    /\ UNCHANGED <<rec_closed, rec_last_write, rec_now, rec_close,
                   rec_dropped, rec_started>>
    /\ UNCHANGED <<riskVars, bookVars, liveVars, engineVars, evalVars, subVars>>

\* close(), line 172: self._closed = True
CloseFlag ==
    /\ rec_close = "idle"
    /\ rec_closed' = TRUE
    /\ rec_close' = "flagged"
    /\ UNCHANGED <<rec_handles, rec_last_write, rec_now, rec_calls,
                   rec_lines, rec_dropped, rec_started>>
    /\ UNCHANGED <<riskVars, bookVars, liveVars, engineVars, evalVars, subVars>>

\* close(), lines 173-180: under the lock every handle is closed and
\* _handles cleared; close() returns
CloseHandles ==
    /\ rec_close = "flagged"
    /\ rec_handles' = {}
    /\ rec_close' = "returned"
    /\ UNCHANGED <<rec_closed, rec_last_write, rec_now, rec_calls,
                   rec_lines, rec_dropped, rec_started>>
    /\ UNCHANGED <<riskVars, bookVars, liveVars, engineVars, evalVars, subVars>>

NextRecorder ==
    \/ ClockTick
    \/ \E t \in RecThreads, key \in RecKeys : OnBookUpdateEnter(t, key)
    \/ \E t \in RecThreads : OnBookUpdateDedup(t)
    \/ \E t \in RecThreads, fails \in BOOLEAN : OnBookUpdateWrite(t, fails)
    \/ CloseFlag
    \/ CloseHandles

----------------------------------------------------------------------------
\* BookImbalanceSignal.evaluate on one thread while another thread updates
\* the book.  Every query of LiveOrderBook takes the book's lock for itself:
\* get_bid_depth reads the best bid under one acquisition and sums under a
\* second, and evaluate calls the queries one after the other.  Each
\* acquisition is one step.

MaxConcurrent == 2     \* book updates while one evaluate call runs

NotStarted ==
    [pc |-> "idle", synced |-> FALSE, best |-> NoPrice, bid_vol |-> 0,
     ask_vol |-> 0, best_bid |-> NoPrice, best_ask |-> NoPrice,
     result |-> None, seen |-> {}, updates |-> 0]

InitEvaluation == evaluation = NotStarted

\* the book on which the detector runs, and what the feed may replace it with
TornStart == Book(Side1(55, 500), Side1(60, 500), TRUE)
TornCalls ==
    {[bids |-> <<<<55, 100>>>>, asks |-> <<<<60, 100>>>>],
     [bids |-> <<<<54, 500>>, <<50, 300>>>>, asks |-> <<<<61, 500>>>>],
     [bids |-> <<>>, asks |-> <<<<60, 500>>>>]}

InitTornBook ==
    /\ books = [k \in {"K"} |-> TornStart]
    /\ inbox = NoFrame
    /\ lastFrame = LastFrame("none", "")
    /\ bookLog = LogOf(books)
    /\ callbacks = [k \in DOMAIN books |-> <<>>]
    /\ raises = {}
    /\ cbLog = <<>>

\* sum(s for p, s in self._bids.items() if p >= cutoff), cutoff from best
bid_sum_from(book, best) ==
    fsum(book.bids, {p \in DOMAIN book.bids : p * UNIT >= best * (UNIT - depth_pct)})

\* sum(s for p, s in self._asks.items() if p <= cutoff), cutoff from best
ask_sum_from(book, best) ==
    fsum(book.asks, {p \in DOMAIN book.asks : p * UNIT <= best * (UNIT + depth_pct)})

EvalStep(ev) ==
    /\ evaluation' = ev
    /\ UNCHANGED <<riskVars, bookVars, liveVars, engineVars, recVars, subVars>>

\* evaluate, lines 84-85: book.is_synced
EvalSynced ==
    /\ evaluation.pc = "idle"
    /\ EvalStep([NotStarted EXCEPT
                    !.pc = IF books["K"].is_synced THEN "bid_best" ELSE "done",
                    !.synced = books["K"].is_synced,
                    !.seen = {books["K"]}])

\* get_bid_depth, first acquisition: best = self.get_best_bid()
EvalBidBest ==
    /\ evaluation.pc = "bid_best"
    /\ LET best == get_best_bid(books["K"])
       IN  EvalStep([evaluation EXCEPT
                        !.pc = IF best = NoPrice THEN "ask_best" ELSE "bid_sum",
                        !.best = best, !.bid_vol = 0])

\* get_bid_depth, second acquisition: the sum down to the cutoff
EvalBidSum ==
    /\ evaluation.pc = "bid_sum"
    /\ EvalStep([evaluation EXCEPT
                    !.pc = "ask_best",
                    !.bid_vol = bid_sum_from(books["K"], evaluation.best)])

\* get_ask_depth, first acquisition: best = self.get_best_ask()
EvalAskBest ==
    /\ evaluation.pc = "ask_best"
    /\ LET best == get_best_ask(books["K"])
           sig  == imbalance_signal(sensitivity, evaluation.bid_vol, 0, "kalshi", "K")
       IN  EvalStep([evaluation EXCEPT
                        !.pc = IF best # NoPrice THEN "ask_sum"
                               ELSE IF sig = None THEN "done" ELSE "meta_bid",
                        !.best = best, !.ask_vol = 0,
                        !.result = IF best # NoPrice THEN None ELSE sig])

\* get_ask_depth, second acquisition, and evaluate, lines 89-115
EvalAskSum ==
    /\ evaluation.pc = "ask_sum"
    /\ LET ask_vol == ask_sum_from(books["K"], evaluation.best)
           sig     == imbalance_signal(sensitivity, evaluation.bid_vol, ask_vol,
                                       "kalshi", "K")
       IN  EvalStep([evaluation EXCEPT
                        !.pc = IF sig = None THEN "done" ELSE "meta_bid",
                        !.ask_vol = ask_vol, !.result = sig])

\* evaluate, line 133: "best_bid": book.get_best_bid()
EvalMetaBid ==
    /\ evaluation.pc = "meta_bid"
    /\ EvalStep([evaluation EXCEPT !.pc = "meta_ask",
                                   !.best_bid = get_best_bid(books["K"])])

\* evaluate, line 134: "best_ask": book.get_best_ask(); the Signal is returned
EvalMetaAsk ==
    /\ evaluation.pc = "meta_ask"
    /\ EvalStep([evaluation EXCEPT !.pc = "done",
                                   !.best_ask = get_best_ask(books["K"])])

\* LiveOrderBook.apply_snapshot on the updating thread
ConcurrentSnapshot(ticker, call) ==
    /\ ticker \in DOMAIN books
    /\ evaluation.updates < MaxConcurrent
    /\ books' = [books EXCEPT ![ticker] = apply_snapshot(@, call.bids, call.asks)]
    /\ lastFrame' = [LastFrame("apply_snapshot", ticker)
                        EXCEPT !.yes = call.bids, !.no = call.asks,
                               !.prev = LevelCount(books[ticker])]
    /\ bookLog' = LogSnapshot(bookLog, ticker)
    /\ cbLog' = fire_callbacks(callbacks[ticker], raises, books'[ticker])
    /\ evaluation' = [evaluation EXCEPT
                         !.updates = @ + 1,
                         !.seen = IF evaluation.pc \in {"idle", "done"} THEN @
                                  ELSE @ \cup {books'[ticker]}]
    /\ UNCHANGED <<inbox, callbacks, raises>>
    /\ UNCHANGED <<riskVars, liveVars, engineVars, recVars, subVars>>

NextTorn ==
    \/ EvalSynced
    \/ EvalBidBest
    \/ EvalBidSum
    \/ EvalAskBest
    \/ EvalAskSum
    \/ EvalMetaBid
    \/ EvalMetaAsk
    \/ \E call \in TornCalls : ConcurrentSnapshot("K", call)

----------------------------------------------------------------------------
\* Specifications

Init == InitRisk(MaxDailyLossChoices) /\ InitBook /\ InitAdapter /\ InitEngine /\ InitRecorder /\ InitEvaluation /\ InitSubscriptions

InitSnap ==
    /\ InitRisk({max_daily_loss_usd})
    /\ InitAdapter
    /\ InitEngine
    /\ InitRecorder /\ InitEvaluation
    /\ books \in PriorBooks
    /\ inbox \in SnapshotFrames(MaxSnapLevels)
    /\ lastFrame = LastFrame("none", "")
    /\ bookLog = LogOf(books)
    /\ callbacks = [k \in DOMAIN books |-> <<>>]
    /\ raises = {}
    /\ cbLog = <<>>
    /\ InitSubscriptions

Next == NextRisk

\* the RiskManager's public operations in any order
Spec == Init /\ [][Next]_vars

\* batches of signals through on_signals, and position closes
SpecSignals == Init /\ [][NextSignals]_vars

\* run_live as it is wired (live_trading.py:253-431): on_signals is the one
\* caller of the RiskManager besides the snapshot task, which only reads it.
\* Whether and when signals arrive is up to the feeds; a batch handed to
\* on_signals is processed to its end.
NextLiveLoop ==
    \/ \E n \in 1..MaxOrders : OnSignalsStart(n)
    \/ \E s \in Signals, o \in Outcomes : OnSignalsStep(s, o)

SpecLiveLoop ==
    /\ Init /\ [][NextLiveLoop]_vars
    /\ WF_vars(\E s \in Signals, o \in Outcomes : OnSignalsStep(s, o))

\* the mutators of one LiveOrderBook in any order
InitBookCalls == InitRisk({max_daily_loss_usd}) /\ InitOneBook /\ InitAdapter /\ InitEngine /\ InitRecorder /\ InitEvaluation /\ InitSubscriptions
SpecBook == InitBookCalls /\ [][NextBook]_vars

\* the same, with calls repeated
SpecRepeat == InitBookCalls /\ [][NextRepeat]_vars

\* the same, with prices that cross
SpecCross == InitBookCalls /\ [][NextCross]_vars

\* an adapter's registry from construction on
SpecSync == Init /\ [][NextSync]_vars

\* one apply_snapshot call over a prior book
InitReplace == InitRisk({max_daily_loss_usd}) /\ InitOneSnapshot /\ InitAdapter /\ InitEngine /\ InitRecorder /\ InitEvaluation /\ InitSubscriptions
SpecReplace == InitReplace /\ [][NextReplace]_vars

\* one orderbook_snapshot frame over a prior book
SpecSnap == InitSnap /\ [][NextSnap]_vars

\* the adapter task started by run_live
\* one mutator call on a book with callbacks
InitFire == InitRisk({max_daily_loss_usd}) /\ InitOneCall /\ InitAdapter /\ InitEngine /\ InitRecorder /\ InitEvaluation /\ InitSubscriptions
SpecFire == InitFire /\ [][NextFire]_vars

InitLive == InitRisk({max_daily_loss_usd}) /\ InitBook /\ InitRunLive /\ InitEngine /\ InitRecorder /\ InitEvaluation /\ InitSubscriptions

\* a SignalEngine from construction on
InitSignalEngine == InitRisk({max_daily_loss_usd}) /\ InitBook /\ InitAdapter /\ InitEngine /\ InitRecorder /\ InitEvaluation /\ InitSubscriptions
SpecEngine == InitSignalEngine /\ [][NextEngine]_vars
SpecLive == InitLive /\ [][NextLive]_vars

\* the RiskManager's public operations in any order, daily-loss limit off
SpecExposure == InitSignalEngine /\ [][NextRisk]_vars

\* _kelly over signals of every shape
SpecKelly == InitSignalEngine /\ [][NextKelly]_vars

\* an adapter from construction on: subscribe and add_global_callback calls
\* before and while run() is under way
InitAdapterRun ==
    /\ InitRisk({max_daily_loss_usd}) /\ InitBook /\ InitEngine /\ InitRecorder
    /\ InitEvaluation /\ InitSubscriptions
    /\ running = FALSE
    /\ pc = "idle"
    /\ delay = reconnect_delay_initial
    /\ global_callbacks = <<>>
    /\ fired = [c \in CallbackNames |-> 0]
    /\ frames_read = 0
    /\ updates_applied = 0
    /\ message = NoMessage
    /\ sleep_left = 0
    /\ slept = 0
    /\ error = ""
    /\ stop_at = NotStopped
    /\ platform \in Platforms
SpecAdapter == InitAdapterRun /\ [][NextAdapter]_vars

\* the registry of an adapter from construction on
SpecRegistry == Init /\ [][NextRegistry]_vars

\* the detectors over books of every shape, one book per venue
InitDetect == InitRisk({max_daily_loss_usd}) /\ InitDetectBooks /\ InitAdapter /\ InitEngine /\ InitRecorder /\ InitEvaluation /\ InitSubscriptions
SpecDetect == InitDetect /\ [][NextDetect]_vars

\* a recorder, its callers on two threads, and close()
InitRecording == InitRisk({max_daily_loss_usd}) /\ InitBook /\ InitAdapter /\ InitEngine /\ InitRecorder /\ InitEvaluation /\ InitSubscriptions
\* one evaluate call and a concurrent feed
InitTorn == InitRisk({max_daily_loss_usd}) /\ InitTornBook /\ InitAdapter /\ InitEngine /\ InitRecorder /\ InitEvaluation /\ InitSubscriptions
SpecTorn == InitTorn /\ [][NextTorn]_vars

SpecRecorder == InitRecording /\ [][NextRecorder]_vars

----------------------------------------------------------------------------
\* Claims about the RiskManager and the signal path

\* What the last check saw
Halted   == max_daily_loss > 0 /\ daily_pnl <= -max_daily_loss
LowEdge  == last.signal.edge_estimate < min_edge_threshold
ZeroSize == single_cap(kelly(last.signal) * kelly_fraction, bankroll) <= 0
AtCeiling == (bankroll * max_total_exposure) \div UNIT - last.exposure <= 0

\* C2: an approved decision has 0 < position_size_usd <= bankroll *
\* max_position_fraction, and the exposure at the time of the check plus the
\* position size is at most bankroll * max_total_exposure.
C2_ApprovedWithinCaps ==
    (last.checked /\ last.decision.approved) =>
        /\ 0 < last.decision.position_size_usd
        /\ last.decision.position_size_usd * UNIT
              <= bankroll * max_position_fraction
        /\ (last.exposure + last.decision.position_size_usd) * UNIT
              <= bankroll * max_total_exposure

\* C2 witness: an approval whose size was cut down to the exposure remaining
C2_Witness ==
    /\ last.checked /\ last.decision.approved
    /\ last.exposure > 0
    /\ last.decision.position_size_usd
         < single_cap(kelly(last.signal) * kelly_fraction, bankroll)
    /\ last.exposure + last.decision.position_size_usd
         = (bankroll * max_total_exposure) \div UNIT

\* C3: while market m is recorded open, every signal for m is rejected as a
\* duplicate and no order for m reaches the placement port or the orders table.
C3_NoOrderWhileOpen ==
    [][ /\ \A m \in DOMAIN open_positions :
              /\ exchange'[m] = exchange[m]
              /\ \A i \in (Len(orders) + 1)..Len(orders') :
                     orders'[i].market_id # m
        /\ (last'.op = "signal" /\ last'.checked
              /\ last'.signal.market_id \in DOMAIN open_positions)
           => last'.decision.reason = "duplicate_position" ]_vars

\* C3 witness: a signal that would pass every other gate is rejected because
\* its market was opened by the one order placed so far
C3_Witness ==
    /\ last.op = "signal" /\ last.checked /\ last.was_open
    /\ last.decision.reason = "duplicate_position"
    /\ ~LowEdge /\ ~ZeroSize /\ ~Halted /\ ~AtCeiling
    /\ exchange[last.signal.market_id] = 1
    /\ closes = 0

\* C4: check returns the rejection of the first failing gate in the order
\* duplicate, daily loss, edge floor, zero size, exposure ceiling, and
\* approves when none fails.
C4_GateOrder ==
    last.checked =>
        last.decision.reason =
            IF last.was_open THEN "duplicate_position"
            ELSE IF Halted THEN "daily_loss_limit"
            ELSE IF LowEdge THEN "edge_below_min"
            ELSE IF ZeroSize THEN "zero_size"
            ELSE IF AtCeiling THEN "exposure_ceiling"
            ELSE ""

\* C4 witness: a duplicate below the edge floor while the daily-loss halt is
\* active is rejected as a duplicate
C4_Witness ==
    /\ last.checked /\ last.was_open /\ Halted /\ LowEdge
    /\ last.decision.reason = "duplicate_position"

\* C5: with max_daily_loss > 0 and daily PnL <= -max_daily_loss, check rejects
\* every signal for a market that is not open with the daily-loss reason and
\* size 0, whatever its edge; with max_daily_loss = 0 the gate never rejects.
C5_DailyLossHalt ==
    last.checked =>
        /\ (Halted /\ ~last.was_open) =>
              /\ ~last.decision.approved
              /\ last.decision.reason = "daily_loss_limit"
              /\ last.decision.position_size_usd = 0
        /\ (max_daily_loss = 0) => last.decision.reason # "daily_loss_limit"

\* C5 witness: the daily PnL is exactly at the limit and the signal's edge is
\* above the floor
C5_Witness ==
    /\ last.checked /\ ~last.was_open /\ ~LowEdge
    /\ max_daily_loss > 0 /\ daily_pnl = -max_daily_loss
    /\ last.decision.reason = "daily_loss_limit"

\* C6: when the UTC date differs from the stored PnL date, check resets the
\* daily PnL to 0 and stores the new date before the daily-loss gate, so the
\* check is never rejected for the daily loss.
C6_ResetBeforeGate ==
    (last.checked /\ last.date_changed) =>
        /\ daily_pnl = 0
        /\ pnl_date = today
        /\ last.decision.reason # "daily_loss_limit"

\* C6 witness: the loss limit was reached on an earlier day, nothing was closed
\* today, and the check of the new day approves
C6_Witness ==
    /\ last.checked /\ last.date_changed
    /\ max_daily_loss > 0 /\ last.pnl_before <= -max_daily_loss
    /\ closedToday = 0
    /\ last.decision.approved

\* C7: after check, a read of daily_pnl or record_close, the daily PnL equals
\* the sum of the pnl values passed to record_close on the current UTC date.
C7_DailyPnlIsTodaysSum ==
    last.op \in {"check", "daily_pnl", "record_close"} => daily_pnl = closedToday

----------------------------------------------------------------------------
\* Claims about the order book and the Kalshi adapter

\* C1: after any sequence of apply_snapshot, apply_delta and
\* apply_delta_increment calls, every level stored in bids and asks has
\* size > 0.
C1_LevelsPositive ==
    \A t \in DOMAIN books :
        /\ \A p \in DOMAIN books[t].bids : gt0(books[t].bids[p])
        /\ \A p \in DOMAIN books[t].asks : gt0(books[t].asks[p])

\* The frame just handled was an orderbook_snapshot for a named market
SnapshotHandled ==
    lastFrame.kind = "orderbook_snapshot" /\ lastFrame.market_ticker # ""

PositiveAt(levels, p) == {i \in DOMAIN levels : levels[i][1] = p /\ gt0(levels[i][2])}

\* C10 as stated: after an orderbook_snapshot frame the book has a bid at p
\* with size s for each [p, s] of yes[] with s > 0, an ask at 100 - p with size
\* s for each [p, s] of no[] with s > 0, and no other levels.
C10_EveryLevelStored ==
    SnapshotHandled =>
      LET b == books[lastFrame.market_ticker]
          y == lastFrame.yes
          n == lastFrame.no
      IN  /\ \A i \in DOMAIN y : gt0(y[i][2]) =>
                 y[i][1] \in DOMAIN b.bids /\ b.bids[y[i][1]] = y[i][2]
          /\ \A i \in DOMAIN n : gt0(n[i][2]) =>
                 (100 - n[i][1]) \in DOMAIN b.asks
                   /\ b.asks[100 - n[i][1]] = n[i][2]
          /\ DOMAIN b.bids = {y[i][1] : i \in {k \in DOMAIN y : gt0(y[k][2])}}
          /\ DOMAIN b.asks = {100 - n[i][1] : i \in {k \in DOMAIN n : gt0(n[k][2])}}

\* C10 amended: the book has a bid at p exactly for the prices p that some
\* [p, s] of yes[] with s > 0 names, and its size is that of the last such
\* entry; likewise an ask at 100 - p for no[].
C10_LastLevelStored ==
    SnapshotHandled =>
      LET b == books[lastFrame.market_ticker]
          y == lastFrame.yes
          n == lastFrame.no
      IN  /\ \A p \in YesCents :
                 IF PositiveAt(y, p) = {} THEN p \notin DOMAIN b.bids
                 ELSE /\ p \in DOMAIN b.bids
                      /\ \E i \in PositiveAt(y, p) :
                            /\ b.bids[p] = y[i][2]
                            /\ \A j \in PositiveAt(y, p) : j <= i
          /\ \A p \in NoCents :
                 IF PositiveAt(n, p) = {} THEN (100 - p) \notin DOMAIN b.asks
                 ELSE /\ (100 - p) \in DOMAIN b.asks
                      /\ \E i \in PositiveAt(n, p) :
                            /\ b.asks[100 - p] = n[i][2]
                            /\ \A j \in PositiveAt(n, p) : j <= i
          /\ DOMAIN b.bids \subseteq YesCents
          /\ DOMAIN b.asks \subseteq {100 - p : p \in NoCents}

\* C10 witness: yes[] names one price twice with different positive sizes and
\* the book holds the second
C10_Witness ==
    /\ SnapshotHandled
    /\ Len(lastFrame.yes) = 2
    /\ lastFrame.yes[1][1] = lastFrame.yes[2][1]
    /\ gt0(lastFrame.yes[1][2]) /\ gt0(lastFrame.yes[2][2])
    /\ lastFrame.yes[1][2] # lastFrame.yes[2][2]
    /\ books[lastFrame.market_ticker].bids[lastFrame.yes[2][1]] = lastFrame.yes[2][2]

\* an apply_snapshot call has just been made
SnapshotApplied == lastFrame.kind = "apply_snapshot"

\* the side holds, for each price some level of the call names with size > 0,
\* the size of the last such level, and nothing else
HoldsLastOf(side, levels) ==
    /\ DOMAIN side = {levels[i][1] : i \in {k \in DOMAIN levels : gt0(levels[k][2])}}
    /\ \A p \in DOMAIN side :
          \E i \in PositiveAt(levels, p) :
              side[p] = levels[i][2] /\ \A j \in PositiveAt(levels, p) : j <= i

\* C11 as stated: after apply_snapshot(bids, asks) the book's bids and asks are
\* exactly the given levels that have size > 0, whatever the book held before.
C11_ExactlyGivenLevels ==
    SnapshotApplied =>
      LET b == books[lastFrame.market_ticker]
          given == [bid |-> lastFrame.yes, ask |-> lastFrame.no]
      IN  \A side \in BookSides :
            LET m == SideOf(b, side)
                l == given[side]
            IN  /\ \A i \in DOMAIN l : gt0(l[i][2]) =>
                      l[i][1] \in DOMAIN m /\ m[l[i][1]] = l[i][2]
                /\ \A p \in DOMAIN m : \E i \in DOMAIN l :
                      l[i][1] = p /\ l[i][2] = m[p] /\ gt0(l[i][2])

\* C11 amended: after apply_snapshot(bids, asks) each side of the book holds,
\* for every price that a given level with size > 0 names, the size of the last
\* such level, and no other level: nothing the book held before survives.
C11_SnapshotReplaces ==
    SnapshotApplied =>
      /\ HoldsLastOf(books[lastFrame.market_ticker].bids, lastFrame.yes)
      /\ HoldsLastOf(books[lastFrame.market_ticker].asks, lastFrame.no)

\* C11 witness: a snapshot that does not name the one level the deltas had
\* built (bid 54) leaves a book with just its own level at 55
C11_Witness ==
    /\ SnapshotApplied
    /\ lastFrame.prev = 1
    /\ lastFrame.yes = <<<<55, 2>>>> /\ lastFrame.no = <<>>
    /\ DOMAIN books["K"].bids = {55}
    /\ books["K"].asks = EmptyMap

\* C12: a book's is_synced flag is true exactly when apply_snapshot has been
\* applied to it at least once; deltas on a never-snapshotted book, also one
\* that the first delta frame created, leave it false.
C12_SyncedIffSnapshotted ==
    /\ DOMAIN bookLog = DOMAIN books
    /\ \A t \in DOMAIN books : books[t].is_synced <=> bookLog[t].snapshotted

\* C12 witness: the book was created by a delta frame, has levels on both
\* sides from further deltas, and is not synced
C12_Witness ==
    /\ "K" \in DOMAIN books
    /\ bookLog["K"].created_by = "orderbook_delta"
    /\ ~bookLog["K"].snapshotted
    /\ lastFrame.kind = "apply_delta"
    /\ DOMAIN books["K"].bids # {} /\ DOMAIN books["K"].asks # {}
    /\ ~books["K"].is_synced

\* C13: on every apply_snapshot, apply_delta and apply_delta_increment call
\* each callback registered on the book is invoked exactly once, in
\* registration order, with the book as the completed mutation left it, also
\* when callbacks of the same update raise.
C13_EachCallbackOnce ==
    lastFrame.kind \in {"apply_snapshot", "apply_delta", "apply_delta_increment"}
        => LET cbs == callbacks[lastFrame.market_ticker]
           IN  /\ Len(cbLog) = Len(cbs)
               /\ \A i \in 1..Len(cbs) :
                     /\ cbLog[i].fn = cbs[i]
                     /\ cbLog[i].saw = books[lastFrame.market_ticker]

\* C13 witness: the first of two distinct callbacks raised during an
\* apply_delta that added a level, and the second was still called
C13_Witness ==
    /\ lastFrame.kind = "apply_delta"
    /\ lastFrame.prev = 0
    /\ Len(cbLog) = 2
    /\ cbLog[1].raised /\ cbLog[1].fn # cbLog[2].fn
    /\ cbLog[2].saw.bids # EmptyMap

----------------------------------------------------------------------------
\* Claims about the live loop

\* C9: in the live loop every book update applied by an adapter has driven one
\* SignalEngine.evaluate_all by the time the next frame is read.
C9_UpdateDrivesEvaluateAll ==
    fired["signal_engine.evaluate_all"] = updates_applied

StopCalled == stop_at.pc # ""

\* C14: the reconnect delay starts at the initial value, is slept in full and
\* then doubled after each failed attempt, stays between the initial value
\* and the maximum, and is reset to the initial value on every successful
\* connect.
C14_DelayStep ==
    /\ (pc = "idle" /\ pc' # "idle") => delay' = reconnect_delay_initial
    /\ (pc = "connecting" /\ pc' = "subscribing") => delay' = reconnect_delay_initial
    /\ (pc # "sleeping" /\ pc' = "sleeping") => (sleep_left' = delay /\ delay' = delay)
    /\ (pc = "sleeping" /\ pc' # "sleeping")
          => /\ sleep_left = 0
             /\ slept' = delay
             /\ delay' = IF 2 * delay > reconnect_delay_max
                           THEN reconnect_delay_max ELSE 2 * delay
    /\ delay' # delay
          => \/ pc = "sleeping" /\ pc' # "sleeping"
             \/ pc = "connecting" /\ pc' = "subscribing"

C14_Backoff ==
    /\ [](reconnect_delay_initial <= delay /\ delay <= reconnect_delay_max)
    /\ [][C14_DelayStep]_vars

\* C14 witness: after a backoff sleep of the maximum length a connect
\* succeeded and the delay is back at the initial value
C14_Witness ==
    /\ pc = "subscribing"
    /\ slept = reconnect_delay_max
    /\ delay = reconnect_delay_initial

\* C15: after stop() on a running adapter, run() starts no new connection
\* attempt and no backoff sleep, the next frame read ends it, and no frame read
\* after stop() reaches _handle_message; the frame in _handle_message when
\* stop() is called is handled to its end.
C15_StopStep ==
    StopCalled =>
        /\ (pc = "reading" /\ frames_read' # frames_read)
              => (pc' = "stopped" /\ message' = NoMessage /\ books' = books
                  /\ cbLog' = cbLog /\ updates_applied' = updates_applied)
        /\ pc' = "handling" => pc = "handling"
        /\ pc' = "connecting" => pc = "connecting"
        /\ pc' = "sleeping" => pc = "sleeping"
        /\ (pc = "handling" /\ pc' # "handling")
              => (pc' \in {"reading", "stopped"}
                  /\ books' = IF platform = "kalshi"
                                THEN handle_message(books, message)
                                ELSE poly_handle_message(books, message))

C15_StopEndsRun == [][C15_StopStep]_vars

\* C15 witness: stop() came while the snapshot for K was being handled; that
\* frame was applied, the next frame was read and dropped, run() returned
C15_Witness ==
    /\ stop_at.pc = "handling"
    /\ pc = "stopped"
    /\ frames_read = 2
    /\ updates_applied = 1
    /\ "K" \in DOMAIN books /\ books["K"].is_synced

\* C16: a stop() issued during a reconnect backoff sleep makes run() exit at
\* once: no further part of the sleep passes with run() still in it.
C16_StopEndsSleep ==
    (stop_at.pc = "sleeping" /\ pc = "sleeping") => sleep_left = stop_at.left

\* C17: no exception raised while building headers, connecting, subscribing
\* or handling a frame leaves run(); while the run flag is set each such
\* error starts a backoff sleep of the current delay, after which a new
\* connection attempt follows; run() returns only after stop().
C17_ErrorStep ==
    /\ (error = "" /\ error' # "" /\ running)
          => (pc' = "sleeping" /\ sleep_left' = delay)
    /\ (pc = "sleeping" /\ pc' # "sleeping" /\ running) => pc' = "connecting"

C17_ErrorsAbsorbed ==
    /\ [](pc # "raised")
    /\ [](pc = "stopped" => StopCalled)
    /\ [][C17_ErrorStep]_vars

\* C17 witness: _handle_message raised ValueError on the first frame, the
\* backoff sleep ran out and run() is connecting again
C17_Witness ==
    /\ pc = "connecting"
    /\ running
    /\ frames_read = 1
    /\ lastFrame.kind = "orderbook_delta" /\ lastFrame.delta = 1
    /\ slept = reconnect_delay_initial /\ delay = 2 * reconnect_delay_initial

\* C18: a frame that is not valid JSON is dropped by the Kalshi and by the
\* Polymarket adapter: no book is created or changed, no callback is called,
\* and run() goes on reading the same socket.
C18_DropStep ==
    (pc = "handling" /\ pc' # "handling" /\ message.payload = "not_json")
        => /\ books' = books
           /\ callbacks' = callbacks
           /\ cbLog' = <<>> /\ fired' = fired
           /\ updates_applied' = updates_applied
           /\ pc' = "reading"
           /\ error' = error /\ delay' = delay

C18_KalshiDrop ==
    /\ platform = "kalshi"
    /\ lastFrame.kind = "not_json"
    /\ pc = "reading" /\ error = "" /\ slept = 0
    /\ frames_read = 2 /\ updates_applied = 1

----------------------------------------------------------------------------
\* Claims about the SignalEngine

\* how often x occurs in s
Occurrences(s, x) == Cardinality({i \in DOMAIN s : s[i] = x})

\* how often the detectors emitted x in the last evaluate_all call
Emitted(x) ==
    Cardinality({i \in DOMAIN lastEval.pairs : lastEval.arb[lastEval.pairs[i]] = x})
        + Cardinality({i \in DOMAIN lastEval.books :
                          lastEval.imb[lastEval.books[i]] = x})

SignalValues ==
    {lastEval.arb[p] : p \in PairIds} \cup {lastEval.imb[b] : b \in SignalBookIds}

\* C19: evaluate_all returns exactly the signals the arb detector emitted
\* over the registered pairs and the imbalance detector over the registered
\* books, highest strength first, and every callback invocation received
\* that same list.
C19_ReturnsSortedEmitted ==
    lastEval.called =>
        /\ \A i \in DOMAIN lastEval.returned : lastEval.returned[i] # None
        /\ \A x \in SignalValues \ {None} :
              Occurrences(lastEval.returned, x) = Emitted(x)
        /\ \A i \in DOMAIN lastEval.returned :
              lastEval.returned[i] \in SignalValues
        /\ \A i, j \in DOMAIN lastEval.returned :
              i < j => lastEval.returned[i].strength >= lastEval.returned[j].strength
        /\ \A k \in DOMAIN lastEval.log : lastEval.log[k].got = lastEval.returned

\* C19 witness: the imbalance signal (0.9), emitted after the arb signal
\* (0.5), is returned before it, and a callback received that list
C19_Witness ==
    /\ lastEval.called
    /\ Len(lastEval.returned) = 2
    /\ lastEval.returned[1].signal_type = "book_imbalance"
    /\ lastEval.returned[1].strength = 900
    /\ lastEval.returned[2].signal_type = "cross_exchange_arb"
    /\ Len(lastEval.log) >= 1

\* C20 as stated: at the end of every evaluate_all call each registered
\* callback is invoked exactly once with the fired signals, raising callbacks
\* notwithstanding.
C20_EveryCallNotifies ==
    lastEval.called =>
        /\ Len(lastEval.log) = Len(lastEval.callbacks)
        /\ \A i \in DOMAIN lastEval.log :
              /\ lastEval.log[i].fn = lastEval.callbacks[i]
              /\ lastEval.log[i].got = lastEval.returned

\* C20 amended: at the end of every evaluate_all call that fired at least one
\* signal each registered callback is invoked exactly once, in registration
\* order, with the full list of fired signals, raising callbacks
\* notwithstanding; a call that fired no signal invokes no callback.
C20_NotifiesWhenFired ==
    lastEval.called =>
        IF lastEval.returned = <<>>
          THEN lastEval.log = <<>>
          ELSE /\ Len(lastEval.log) = Len(lastEval.callbacks)
               /\ \A i \in DOMAIN lastEval.log :
                     /\ lastEval.log[i].fn = lastEval.callbacks[i]
                     /\ lastEval.log[i].got = lastEval.returned

\* C20 witness: the first of two callbacks raised, the second was still
\* called with the fired signal
C20_Witness ==
    /\ lastEval.called
    /\ Len(lastEval.returned) = 1
    /\ Len(lastEval.log) = 2
    /\ lastEval.log[1].raised
    /\ lastEval.log[2].fn # lastEval.log[1].fn
    /\ lastEval.log[2].got = lastEval.returned

----------------------------------------------------------------------------
\* the depths BookImbalanceSignal.evaluate reads from the book of market b
BidVol(b)   == get_bid_depth(books[b], depth_pct)
AskVol(b)   == get_ask_depth(books[b], depth_pct)
TotalVol(b) == fadd(BidVol(b), AskVol(b))

\* C21: BookImbalanceSignal.evaluate returns None for a book that is not
\* synced, for a book whose bid_vol + ask_vol within depth_pct of the touch is
\* below min_depth_usd, and for an imbalance between the bearish and the
\* bullish threshold, both thresholds included; a BUY_YES signal has an
\* imbalance strictly above the bullish threshold and a BUY_NO signal one
\* strictly below the bearish threshold, and it emits no other direction.
C21_ImbalanceEmission ==
    lastEval.called =>
        \A b \in SignalBookIds :
            LET r == lastEval.imb[b]
            IN  /\ ~books[b].is_synced => r = None
                /\ flt(TotalVol(b), min_depth_usd) => r = None
                /\ ( /\ ~IsNaN(TotalVol(b))
                     /\ TotalVol(b) > 0
                     /\ BidVol(b) * UNIT >= bearish_threshold * TotalVol(b)
                     /\ BidVol(b) * UNIT <= bullish_threshold * TotalVol(b) ) => r = None
                /\ r # None =>
                     /\ r.direction \in {"BUY_YES", "BUY_NO"}
                     /\ r.direction = "BUY_YES" =>
                            BidVol(b) * UNIT > bullish_threshold * TotalVol(b)
                     /\ r.direction = "BUY_NO" =>
                            BidVol(b) * UNIT < bearish_threshold * TotalVol(b)

\* an evaluation that saw a synced, deep Kalshi book exactly at the bullish
\* threshold and emitted nothing for it, and a Polymarket book above the
\* threshold for which it emitted BUY_YES
C21_Witness ==
    /\ lastEval.called
    /\ books["K"].is_synced
    /\ ~flt(TotalVol("K"), min_depth_usd) /\ ~IsNaN(TotalVol("K"))
    /\ BidVol("K") * UNIT = bullish_threshold * TotalVol("K")
    /\ lastEval.imb["K"] = None
    /\ lastEval.imb["P"] # None
    /\ lastEval.imb["P"].direction = "BUY_YES"

----------------------------------------------------------------------------
\* C22: every signal evaluate_all returns has a strength in [0, 1]; a book
\* imbalance signal has an edge_estimate in [0, 0.15]; a cross-exchange arb
\* signal has an edge_estimate of at least the detector's min_spread.
C22_SignalRanges ==
    lastEval.called =>
        \A i \in 1..Len(lastEval.returned) :
            LET s == lastEval.returned[i]
            IN  /\ s.strength >= 0 /\ s.strength <= UNIT
                /\ s.signal_type = "book_imbalance" =>
                      s.edge_estimate >= 0 /\ s.edge_estimate <= edge_cap
                /\ s.signal_type = "cross_exchange_arb" =>
                      s.edge_estimate >= lastEval.min_spread

\* an evaluation that returned an arb signal and an imbalance signal whose
\* edge the cap cut down
C22_Witness ==
    /\ lastEval.called
    /\ lastEval.sensitivity > sensitivity
    /\ Len(lastEval.returned) = 2
    /\ \E i, j \in 1..2 :
          /\ lastEval.returned[i].signal_type = "cross_exchange_arb"
          /\ lastEval.returned[j].signal_type = "book_imbalance"
          /\ lastEval.returned[j].edge_estimate = edge_cap
          /\ lastEval.returned[j].market_id = "K"
          /\ (BidVol("K") * UNIT - (UNIT \div 2) * TotalVol("K")) * lastEval.sensitivity
                > edge_cap * TotalVol("K") * UNIT

----------------------------------------------------------------------------
\* the two net spreads of the registered pair, from the four touch prices
NetPolyBuy ==
    (get_best_bid(books["K"]) - get_best_ask(books["P"])) * CENT - (poly_fee + kalshi_fee)
NetKalshiBuy ==
    (get_best_bid(books["P"]) - get_best_ask(books["K"])) * CENT - (poly_fee + kalshi_fee)
BothSynced == books["P"].is_synced /\ books["K"].is_synced
TwoSided ==
    /\ DOMAIN books["P"].bids # {} /\ DOMAIN books["P"].asks # {}
    /\ DOMAIN books["K"].bids # {} /\ DOMAIN books["K"].asks # {}

\* C23: CrossExchangeSignal.evaluate returns None if either book is not
\* synced, if one of the four best prices is absent, or if the larger net
\* spread is below min_spread; it returns a signal whenever both books are
\* synced and two-sided and the larger net spread is at least min_spread,
\* equality included.
C23_ArbEmission ==
    lastEval.called =>
        LET r == lastEval.arb["A"]
        IN  /\ ~BothSynced => r = None
            /\ ~TwoSided => r = None
            /\ (TwoSided /\ Max(NetPolyBuy, NetKalshiBuy) < lastEval.min_spread) => r = None
            /\ (BothSynced /\ TwoSided
                  /\ Max(NetPolyBuy, NetKalshiBuy) >= lastEval.min_spread) => r # None

\* an evaluation of two synced two-sided books whose larger net spread
\* equals min_spread, which returned a signal
C23_Witness ==
    /\ lastEval.called
    /\ BothSynced /\ TwoSided
    /\ Max(NetPolyBuy, NetKalshiBuy) = lastEval.min_spread
    /\ lastEval.arb["A"] # None
    /\ lastEval.arb["A"].signal_type = "cross_exchange_arb"

----------------------------------------------------------------------------
\* C24: an emitted arb signal has edge_estimate equal to the larger net
\* spread; its platform and market_id are the buy leg of that spread,
\* Polymarket when spread_poly_buy >= spread_kalshi_buy and Kalshi otherwise;
\* buy_platform / sell_platform, buy_market_id / sell_market_id and
\* buy_price / sell_price carry both legs, buy_price the buy venue's best ask
\* and sell_price the other venue's best bid.
C24_ArbLegs ==
    (lastEval.called /\ lastEval.arb["A"] # None) =>
        LET r   == lastEval.arb["A"]
            buy == IF NetPolyBuy >= NetKalshiBuy THEN "P" ELSE "K"
            sell == IF buy = "P" THEN "K" ELSE "P"
        IN  /\ r.edge_estimate = Max(NetPolyBuy, NetKalshiBuy)
            /\ r.platform = platform_of(buy)
            /\ r.market_id = buy
            /\ r.buy_platform = platform_of(buy)
            /\ r.sell_platform = platform_of(sell)
            /\ r.buy_market_id = buy
            /\ r.sell_market_id = sell
            /\ r.buy_price = get_best_ask(books[buy])
            /\ r.sell_price = get_best_bid(books[sell])

\* an emitted arb signal for two equal net spreads, and so for Polymarket
C24_Witness ==
    /\ lastEval.called
    /\ lastEval.arb["A"] # None
    /\ NetPolyBuy = NetKalshiBuy
    /\ lastEval.arb["A"].platform = "polymarket"
    /\ lastEval.arb["A"].sell_price = get_best_bid(books["K"])

----------------------------------------------------------------------------
Dist(a, b) == IF a >= b THEN a - b ELSE b - a

\* C25, the lines: two lines of one key come from updates that arrived at
\* least min_interval_ms apart, every call writes at most one line, and a
\* call dropped at the interval test has no line.
C25_OneLinePerInterval ==
    \A i, j \in 1..Len(rec_lines) :
        /\ rec_lines[i].call \notin rec_dropped
        /\ i # j =>
              /\ rec_lines[i].call # rec_lines[j].call
              /\ rec_lines[i].key = rec_lines[j].key =>
                    Dist(rec_lines[i].at, rec_lines[j].at) >= min_interval_ms

\* C25, the interval test of one update: it is dropped if it arrived sooner
\* than min_interval_ms after the last accepted update of its key, accepted
\* otherwise, and it leaves the last accepted time of every other key alone.
C25_DedupStep ==
    \A t \in RecThreads :
        (rec_calls[t].pc = "dedup" /\ rec_calls'[t].pc # "dedup") =>
            LET c    == rec_calls[t]
                prev == Get(rec_last_write, c.key, 0)
            IN  /\ c.now - prev < min_interval_ms =>
                      /\ c.call \in rec_dropped'
                      /\ rec_calls'[t].pc = "idle"
                      /\ rec_last_write' = rec_last_write
                /\ c.now - prev >= min_interval_ms =>
                      /\ c.call \notin rec_dropped'
                      /\ rec_calls'[t].pc = "write"
                      /\ rec_last_write'[c.key] = c.now
                /\ \A k \in RecKeys \ {c.key} :
                      Get(rec_last_write', k, 0) = Get(rec_last_write, k, 0)

\* C25: for each key platform:market_id the recorder writes at most one line
\* per min_interval_ms; an update arriving sooner than that after the last
\* accepted update of the same key is dropped and never written later, and
\* updates of other keys are not affected.
C25_Dedup == []C25_OneLinePerInterval /\ [][C25_DedupStep]_vars

\* one update of a key was dropped, and two lines of different keys were
\* written for updates that arrived less than min_interval_ms apart
C25_Witness ==
    /\ rec_dropped # {}
    /\ \E i, j \in 1..Len(rec_lines) :
          /\ rec_lines[i].key # rec_lines[j].key
          /\ Dist(rec_lines[i].at, rec_lines[j].at) < min_interval_ms
          /\ \E t \in RecThreads : rec_calls[t].pc = "idle"

\* C26: once close() has returned no file handle is open, none is opened
\* again and no on_book_update writes a line, whatever the interleaving of
\* close() with on_book_update calls on other threads.
C26_ClosedStaysClosed ==
    rec_close = "returned" =>
        /\ rec_handles = {}
        /\ \A i \in 1..Len(rec_lines) : ~rec_lines[i].after_close

----------------------------------------------------------------------------
\* C27, one step: a second apply_snapshot with the same lists leaves bids and
\* asks as they were; apply_delta(side, p, 0) leaves the book with level p
\* removed from that side and nothing else changed, and a second
\* apply_delta(side, p, 0) leaves the book as it was.
C27_RepeatStep ==
    LET old == books["K"]
        new == books'["K"]
    IN  /\ lastFrame'.kind = "apply_snapshot_again" =>
              new.bids = old.bids /\ new.asks = old.asks
        /\ (lastFrame'.kind \in {"apply_delta", "apply_delta_again"}
               /\ lastFrame'.delta = 0) =>
              LET side == lastFrame'.side
                  p    == lastFrame'.price
              IN  /\ SideOf(new, side) =
                        [q \in DOMAIN SideOf(old, side) \ {p} |-> SideOf(old, side)[q]]
                  /\ p \notin DOMAIN SideOf(old, side) => new = old
                  /\ \A s \in BookSides \ {side} : SideOf(new, s) = SideOf(old, s)
                  /\ new.is_synced = old.is_synced
        /\ (lastFrame'.kind = "apply_delta_again" /\ lastFrame'.delta = 0) =>
              new = old

\* C27: applying the same apply_snapshot(S) a second time leaves bids and asks
\* unchanged; apply_delta(side, p, 0) is idempotent and leaves the book equal
\* to the book with level p removed from that side (unchanged if the level
\* was absent).
C27_Idempotent == [][C27_RepeatStep]_vars

\* a snapshot that left a level in the book was applied a second time
C27_Witness ==
    /\ lastFrame.kind = "apply_snapshot_again"
    /\ LevelCount(books["K"]) >= 1
    /\ lastFrame.prev = LevelCount(books["K"])

\* apply_delta(side, p, 0) removed a level that stood in the book
C27_WitnessDelta ==
    /\ lastFrame.kind = "apply_delta"
    /\ lastFrame.delta = 0
    /\ lastFrame.prev > 0
    /\ lastFrame.price \notin DOMAIN SideOf(books["K"], lastFrame.side)

----------------------------------------------------------------------------
\* a synced book with both sides non-empty and not best_bid < best_ask
Crossed(book) ==
    /\ book.is_synced
    /\ DOMAIN book.bids # {} /\ DOMAIN book.asks # {}
    /\ get_best_bid(book) >= get_best_ask(book)

\* C28: a synced book with both sides non-empty has best_bid < best_ask in
\* steady state: a book that is crossed when an update arrives is no longer
\* crossed after that update.
C28_UncrossStep ==
    Crossed(books["K"]) => ~Crossed(books'["K"])

C28_CrossedOneUpdate == [][C28_UncrossStep]_vars

----------------------------------------------------------------------------
\* C29: an exception raised while on_signals handles one signal (event-store
\* insert, alert, risk check, placement bookkeeping) stays inside the
\* callback, and the remaining signals of the batch are still handled: after
\* the signal that raised, the batch has one signal fewer to go, not none.
C29_BatchStep ==
    (batchLeft > 1 /\ last'.op = "signal" /\ last'.result = "raised")
        => batchLeft' = batchLeft - 1

C29_BatchSurvivesException == [][C29_BatchStep]_vars

----------------------------------------------------------------------------
\* what evaluate would have read had the book been S throughout
ReadsOf(S) ==
    [synced |-> S.is_synced,
     bid_vol |-> get_bid_depth(S, depth_pct), ask_vol |-> get_ask_depth(S, depth_pct),
     best_bid |-> get_best_bid(S), best_ask |-> get_best_ask(S)]

\* C30: the values a detector used for one signal (best bid, best ask, bid
\* depth, ask depth) all come from one book state that existed while it ran,
\* whatever the interleaving with concurrent book updates.
C30_NoTornRead ==
    (evaluation.pc = "done" /\ evaluation.result # None) =>
        \E S \in evaluation.seen :
            ReadsOf(S) = [synced |-> evaluation.synced,
                          bid_vol |-> evaluation.bid_vol,
                          ask_vol |-> evaluation.ask_vol,
                          best_bid |-> evaluation.best_bid,
                          best_ask |-> evaluation.best_ask]

----------------------------------------------------------------------------
\* C31: an orderbook_delta frame with a ticker adds delta to the size the
\* level had (0 when absent): the bid at price cents when side is "yes", the
\* ask at 100 - price cents otherwise; a sum <= 0 removes the level, and the
\* other side of that book is what it was before the frame.
C31_Old == IF lastFrame'.market_ticker \in DOMAIN books
           THEN books[lastFrame'.market_ticker] ELSE NewBook

C31_Expected(m, price, delta) ==
    LET size == fadd(Get(m, price, 0), delta)
    IN  IF le0(size) THEN Pop(m, price) ELSE Put(m, price, size)

C31_DeltaStep ==
    (lastFrame'.kind = "orderbook_delta" /\ lastFrame'.market_ticker # "") =>
        LET new == books'[lastFrame'.market_ticker]
        IN  IF lastFrame'.side = "yes"
            THEN /\ new.bids = C31_Expected(C31_Old.bids, lastFrame'.price,
                                            lastFrame'.delta)
                 /\ new.asks = C31_Old.asks
            ELSE /\ new.asks = C31_Expected(C31_Old.asks, 100 - lastFrame'.price,
                                            lastFrame'.delta)
                 /\ new.bids = C31_Old.bids

C31_KalshiDelta == [][C31_DeltaStep]_vars

\* a "no" delta of -1 at 40c took the last unit of the ask at 0.60 away while
\* the bid at 0.55 stayed
C31_Witness ==
    /\ lastFrame.kind = "orderbook_delta"
    /\ lastFrame.market_ticker = "K"
    /\ lastFrame.side = "no" /\ lastFrame.price = 40
    /\ lastFrame.delta = -1 /\ lastFrame.prev = 1
    /\ 60 \notin DOMAIN books["K"].asks
    /\ 55 \in DOMAIN books["K"].bids

----------------------------------------------------------------------------
\* C32: a price_change frame leaves each level named by its changes at the
\* size of the last change that names it (absent when that size is 0, whatever
\* the level held before), BUY changes on the bids and SELL changes on the
\* asks of the book of the market the token maps to; levels no change names
\* and the other books are as before.
C32_Market == IF message.msg.asset_id = "tokP" THEN "P" ELSE message.msg.asset_id

C32_Old == IF C32_Market \in DOMAIN books THEN books[C32_Market] ELSE NewBook

C32_Naming(raw, price) ==
    {i \in DOMAIN message.msg.changes :
        message.msg.changes[i].side = raw /\ message.msg.changes[i].price = price}

C32_Last(S) == CHOOSE i \in S : \A j \in S : j <= i

C32_SideSet(before, after, raw) ==
    \A price \in 1..99 :
        LET S == C32_Naming(raw, price)
        IN  IF S = {}
              THEN /\ (price \in DOMAIN after) = (price \in DOMAIN before)
                   /\ price \in DOMAIN after => after[price] = before[price]
            ELSE IF message.msg.changes[C32_Last(S)].size = 0
              THEN price \notin DOMAIN after
            ELSE /\ price \in DOMAIN after
                 /\ after[price] = message.msg.changes[C32_Last(S)].size

C32_PriceChangeStep ==
    (/\ pc = "handling" /\ pc' # "handling"
     /\ platform = "polymarket"
     /\ message.type = "price_change" /\ message.payload = "ok") =>
        /\ C32_Market \in DOMAIN books'
        /\ C32_SideSet(C32_Old.bids, books'[C32_Market].bids, "BUY")
        /\ C32_SideSet(C32_Old.asks, books'[C32_Market].asks, "SELL")
        /\ \A k \in DOMAIN books' \ {C32_Market} :
              k \in DOMAIN books /\ books'[k] = books[k]

C32_PriceChange == [][C32_PriceChangeStep]_vars

\* after a book frame (bid 0.55 x 2, ask 0.60 x 1) the frame BUY 0.55 1,
\* SELL 0.60 0, SELL 0.60 2 left the bid at 1 and the ask at 2
C32_Witness ==
    /\ platform = "polymarket"
    /\ lastFrame.kind = "price_change"
    /\ "P" \in DOMAIN books
    /\ books["P"].is_synced
    /\ books["P"].bids = Put(EmptyMap, 55, 1)
    /\ books["P"].asks = Put(EmptyMap, 60, 2)

----------------------------------------------------------------------------
\* C33: whatever the order of subscribe, add_global_callback and frames, every
\* subscribed id has a book in the registry, a subscribe call leaves the books
\* that exist as they are, and every book, made by subscribe or by a frame,
\* carries each registration of the adapter's global callbacks once: each
\* callback as often as it is in the adapter's list.
C33_Count(s, fn) == Cardinality({i \in DOMAIN s : s[i] = fn})

C33_Carried ==
    /\ subscriptions \subseteq DOMAIN books
    /\ DOMAIN callbacks = DOMAIN books
    /\ \A k \in DOMAIN books : \A fn \in CallbackNames :
          C33_Count(callbacks[k], fn) = C33_Count(global_callbacks, fn)

C33_SubscribeStep ==
    lastFrame'.kind = "subscribe" =>
        \A k \in DOMAIN books : k \in DOMAIN books' /\ books'[k] = books[k]

C33_RegistryConsistent == []C33_Carried /\ [][C33_SubscribeStep]_vars

\* a frame made the book of K before K was subscribed, subscribe made the book
\* of P, and both callbacks were registered after a book existed
C33_Witness ==
    /\ subscriptions = {"K", "P"}
    /\ bookLog["K"].created_by # "subscribe"
    /\ bookLog["P"].created_by = "subscribe"
    /\ lastFrame.kind = "add_global_callback"
    /\ global_callbacks = <<"recorder.on_book_update", "signal_engine.evaluate_all">>
    /\ books["K"].is_synced

----------------------------------------------------------------------------
\* C34: every time the run loop has connected and _send_subscribe returns, the
\* call was given all ids registered at that moment; it sent one frame naming
\* them (on Polymarket by their tokens) when there is at least one, and no
\* frame when there is none.  No other step sends anything: an id registered
\* while the connection is open reaches the venue at the next connect.
C34_VenueIds ==
    IF platform = "polymarket"
      THEN {IF mid = "P" THEN "tokP" ELSE mid : mid \in subscriptions}
    ELSE subscriptions

C34_SendStep == pc = "subscribing" /\ pc' = "reading"

C34_SubscribeStep ==
    /\ C34_SendStep =>
          /\ sent'.called
          /\ sent'.market_ids = subscriptions
          /\ sent'.ids = C34_VenueIds
          /\ sent'.frame = (subscriptions # {})
    /\ ~C34_SendStep => sent' = sent

C34_SubscribeOnConnect == [][C34_SubscribeStep]_vars

\* the claim as stated: a frame goes out on every successful connect
C34_FrameOnEveryConnectStep ==
    /\ C34_SendStep => sent'.frame /\ sent'.ids = C34_VenueIds
    /\ ~C34_SendStep => sent' = sent

C34_FrameOnEveryConnect == [][C34_FrameOnEveryConnectStep]_vars

\* a Polymarket adapter reconnected after a backoff and sent the token of P,
\* the one id registered then; K, registered since, has not been sent
C34_Witness ==
    /\ platform = "polymarket"
    /\ pc = "reading"
    /\ slept > 0
    /\ sent.frame
    /\ sent.ids = {"tokP"}
    /\ subscriptions = {"K", "P"}

----------------------------------------------------------------------------
\* C35: the entry price _kelly uses is clamp(best_bid, 0.01, 0.99) for BUY_YES
\* and 1 - clamp(best_bid, 0.01, 0.99) for BUY_NO, where a signal whose
\* metadata has no best_bid (no key, or None) counts as best_bid 0.45 for
\* BUY_YES and 0.55 for BUY_NO.
C35_Clamp(x) == IF x < 10 THEN 10 ELSE IF x > 990 THEN 990 ELSE x

C35_NoBestBid(signal) == signal.best_bid.kind \in {"absent", "null"}

C35_Entry(signal) ==
    IF signal.direction = "BUY_NO"
      THEN UNIT - C35_Clamp(IF C35_NoBestBid(signal) THEN 550
                            ELSE signal.best_bid.value)
    ELSE C35_Clamp(IF C35_NoBestBid(signal) THEN 450 ELSE signal.best_bid.value)

C35_KellyEntry == last.op = "kelly" => last.entry = C35_Entry(last.signal)

----------------------------------------------------------------------------
\* C36: a check call, approving or rejecting, leaves the open positions and
\* the bankroll as they were; the daily PnL and its date change only when the
\* UTC date differs from the PnL date, to 0 and to the new date.  So total
\* exposure after an approval is what it was before it.
C36_CheckStep ==
    last'.op = "check" =>
        /\ open_positions' = open_positions
        /\ bankroll' = bankroll
        /\ total_exposure_usd(open_positions') = last'.exposure
        /\ IF today # pnl_date
             THEN daily_pnl' = 0 /\ pnl_date' = today
             ELSE daily_pnl' = daily_pnl /\ pnl_date' = pnl_date

C36_CheckChangesOnlyDailyPnl == [][C36_CheckStep]_vars

\* an approval on a new day, with a position open and a loss booked the day
\* before: the PnL was reset, the exposure is that of the one open position
C36_Witness ==
    /\ last.op = "check"
    /\ last.decision.approved
    /\ last.date_changed
    /\ last.pnl_before < 0
    /\ daily_pnl = 0
    /\ DOMAIN open_positions # {}
    /\ last.exposure > 0

----------------------------------------------------------------------------
\* C37: in the live signal path, when place_order has returned for a signal,
\* execute returns True and the market of the signal is among the open
\* positions once the signal is dealt with, whatever the event-store calls
\* after the placement do.
C37_PlacedIsRecorded ==
    (last.op = "signal" /\ last.place = "FILLED") =>
        /\ last.result = "true"
        /\ last.signal.market_id \in DOMAIN open_positions

----------------------------------------------------------------------------
\* C38: with positions opened only by record_open with the size check has just
\* approved, a total exposure within bankroll x max_total_exposure stays
\* within it over every step that does not lower the bankroll; while it is
\* above, check approves nothing.
C38_Exposure(open) == SumOver(open, DOMAIN open)

C38_Ceiling(bank) == (bank * max_total_exposure) \div UNIT

C38_Step ==
    /\ (C38_Exposure(open_positions) <= C38_Ceiling(bankroll) /\ bankroll' >= bankroll)
          => C38_Exposure(open_positions') <= C38_Ceiling(bankroll')
    /\ (last'.op = "check" /\ C38_Exposure(open_positions) > C38_Ceiling(bankroll))
          => ~last'.decision.approved

C38_CapKeptWhileBankrollHolds == [][C38_Step]_vars

\* the claim as stated: the exposure is within the ceiling in every state
C38_ExposureWithinCap == C38_Exposure(open_positions) <= C38_Ceiling(bankroll)

\* after update_bankroll(350) left 7 USD of room, the second position was
\* opened with the 7 USD check approved: the exposure is at the ceiling
C38_Witness ==
    /\ last.op = "record_open"
    /\ bankroll = 350
    /\ Cardinality(DOMAIN open_positions) = 2
    /\ C38_Exposure(open_positions) = C38_Ceiling(bankroll)

----------------------------------------------------------------------------
\* C39: in the live trading loop a market that is among the open positions is
\* eventually not among them any more.
C39_EventuallyClosed ==
    \A m \in Markets : (m \in DOMAIN open_positions) ~> (m \notin DOMAIN open_positions)

----------------------------------------------------------------------------
\* C40: the run loop starts a connection attempt after an earlier one only
\* from the backoff sleep, and that sleep lasted at least the initial delay.
C40_ReconnectStep ==
    (pc' = "connecting" /\ pc \notin {"connecting", "idle"}) =>
        /\ pc = "sleeping"
        /\ slept' >= reconnect_delay_initial

C40_BackoffBeforeReconnect == [][C40_ReconnectStep]_vars

====
